---- MODULE Spec2Model ----
(***************************************************************************)
(* Line-oriented purchase-order scan of src/extractors.py:                  *)
(*   RedeBizExtractor._process_redebiz_text  and                            *)
(*   MondelezExtractor._process_text (with _clean_garbled_line, _conv_num). *)
(* Text lines are strings; every regular expression of the source is an     *)
(* operator over the characters of the line.                                *)
(***************************************************************************)
EXTENDS Integers, Sequences, FiniteSets, TLC

(***************************************************************************)
(* Strings (Python str primitives used by the extractors).                  *)
(* Positions are 1-based; 0 stands for Python's "not found" (-1 / None).    *)
(***************************************************************************)
Ch(s, pos) == SubSeq(s, pos, pos)

Slice(s, a, b) == IF a > b THEN "" ELSE SubSeq(s, a, b)

CharsOf(s) == {Ch(s, k) : k \in 1..Len(s)}

DigitChars == CharsOf("0123456789")

AsciiUpper == "ABCDEFGHIJKLMNOPQRSTUVWXYZ"

AsciiLower == "abcdefghijklmnopqrstuvwxyz"

AccentUpper == "ÁÀÂÃÉÊÍÓÔÕÚÜÇ"

AccentLower == "áàâãéêíóôõúüç"

IsDigit(c) == c \in DigitChars

IsSpace(c) == c \in {" ", "\t"}

IsAZ(c) == c \in CharsOf(AsciiUpper)

IsAsciiLetter(c) == c \in CharsOf(AsciiUpper \o AsciiLower)

\* \w of Python 3 str patterns: letters (accented too), digits, underscore
IsWord(c) ==
    IsDigit(c) \/ IsAsciiLetter(c) \/ c \in CharsOf(AccentUpper \o AccentLower)
    \/ c \in {"_", "º", "ª"}

UpperCh(c) ==
    LET lo == AsciiLower \o AccentLower
        up == AsciiUpper \o AccentUpper
    IN  IF \E k \in 1..Len(lo) : Ch(lo, k) = c
        THEN Ch(up, CHOOSE k \in 1..Len(lo) : Ch(lo, k) = c)
        ELSE c

RECURSIVE upper(_)
upper(s) == IF Len(s) = 0 THEN "" ELSE UpperCh(Ch(s, 1)) \o upper(Slice(s, 2, Len(s)))

\* p occurs in s starting at position pos
At(s, p, pos) == pos >= 1 /\ pos + Len(p) - 1 <= Len(s) /\ SubSeq(s, pos, pos + Len(p) - 1) = p

\* str.find, from position `from` on
findFrom(s, p, from) ==
    IF \E pos \in from..Len(s) : At(s, p, pos)
    THEN CHOOSE pos \in from..Len(s) : At(s, p, pos) /\ \A j \in from..(pos - 1) : ~At(s, p, j)
    ELSE 0

find(s, p) == findFrom(s, p, 1)

\* Python's `p in s`
In(p, s) == find(s, p) # 0

\* the character classes of the patterns: \S, [\d\.\-\/], [-\d], [\d\/],
\* [\d\.\/], [\d\.,], [:\s], [\d,\s]
NotSpace(c) == ~IsSpace(c)

IsCnpjChar(c) == IsDigit(c) \/ c \in {".", "-", "/"}

IsDashDigit(c) == IsDigit(c) \/ c = "-"

IsDateChar(c) == IsDigit(c) \/ c = "/"

IsBodyChar(c) == IsDigit(c) \/ c \in {".", "/"}

IsValueChar(c) == IsDigit(c) \/ c \in {".", ","}

IsColonSpace(c) == c = ":" \/ IsSpace(c)

IsEanListChar(c) == IsDigit(c) \/ c = "," \/ IsSpace(c)

\* c belongs to the class named cls
InClass(cls, c) ==
    CASE cls = "IsSpace" -> IsSpace(c)
      [] cls = "NotSpace" -> NotSpace(c)
      [] cls = "IsDigit" -> IsDigit(c)
      [] cls = "IsAZ" -> IsAZ(c)
      [] cls = "IsWord" -> IsWord(c)
      [] cls = "IsCnpjChar" -> IsCnpjChar(c)
      [] cls = "IsDashDigit" -> IsDashDigit(c)
      [] cls = "IsDateChar" -> IsDateChar(c)
      [] cls = "IsBodyChar" -> IsBodyChar(c)
      [] cls = "IsValueChar" -> IsValueChar(c)
      [] cls = "IsColonSpace" -> IsColonSpace(c)
      [] cls = "IsEanListChar" -> IsEanListChar(c)

\* end of the maximal run of characters of class cls that starts at pos (pos-1 when empty)
RunEnd(s, pos, cls) ==
    CHOOSE j \in (pos - 1)..Len(s) :
        /\ \A k \in pos..j : InClass(cls, Ch(s, k))
        /\ (j = Len(s) \/ ~InClass(cls, Ch(s, j + 1)))

strip(s) ==
    IF \A k \in 1..Len(s) : IsSpace(Ch(s, k)) THEN ""
    ELSE LET a == CHOOSE k \in 1..Len(s) : NotSpace(Ch(s, k)) /\ \A j \in 1..(k - 1) : IsSpace(Ch(s, j))
             b == CHOOSE k \in 1..Len(s) : NotSpace(Ch(s, k)) /\ \A j \in (k + 1)..Len(s) : IsSpace(Ch(s, j))
         IN  SubSeq(s, a, b)

\* str.split(): the maximal runs of non-whitespace characters
RECURSIVE splitFrom(_, _)
splitFrom(s, pos) ==
    IF pos > Len(s) THEN <<>>
    ELSE IF IsSpace(Ch(s, pos)) THEN splitFrom(s, pos + 1)
    ELSE LET e == RunEnd(s, pos, "NotSpace") IN <<SubSeq(s, pos, e)>> \o splitFrom(s, e + 1)

split(s) == splitFrom(s, 1)

\* sep.join(parts)
RECURSIVE join(_, _)
join(sep, parts) ==
    IF Len(parts) = 0 THEN ""
    ELSE IF Len(parts) = 1 THEN parts[1]
    ELSE parts[1] \o sep \o join(sep, Tail(parts))

\* re.sub of a character class by rep: every character c with (c \in set) = member
\* is replaced by rep ('[abc]' has member = TRUE, '[^abc]' has member = FALSE)
RECURSIVE subClass(_, _, _, _, _)
subClass(s, pos, set, member, rep) ==
    IF pos > Len(s) THEN ""
    ELSE (IF (Ch(s, pos) \in set) = member THEN rep ELSE Ch(s, pos))
         \o subClass(s, pos + 1, set, member, rep)

\* str.replace(old, new), all non-overlapping occurrences from the left
RECURSIVE replace(_, _, _)
replace(s, old, new) ==
    LET p == find(s, old)
    IN  IF p = 0 THEN s
        ELSE Slice(s, 1, p - 1) \o new \o replace(Slice(s, p + Len(old), Len(s)), old, new)

(***************************************************************************)
(* Regular expressions.  A search result is the tuple of captured groups,   *)
(* << >> when the pattern does not match (re.search returning None).        *)
(***************************************************************************)
\* re.search(lit \s+ ([C]+)) for a class C without whitespace: leftmost
\* occurrence of lit that is followed by whitespace and then a C character
LitWsRunAt(s, lit, p, cls) ==
    LET a == p + Len(lit)
        w == RunEnd(s, a, "IsSpace")
    IN  At(s, lit, p) /\ w >= a /\ w < Len(s) /\ InClass(cls, Ch(s, w + 1))

LitWsRun(s, lit, cls) ==
    IF \E p \in 1..Len(s) : LitWsRunAt(s, lit, p, cls)
    THEN LET p == CHOOSE q \in 1..Len(s) :
                    LitWsRunAt(s, lit, q, cls) /\ \A r \in 1..(q - 1) : ~LitWsRunAt(s, lit, r, cls)
             w == RunEnd(s, p + Len(lit), "IsSpace")
         IN  <<SubSeq(s, w + 1, RunEnd(s, w + 1, cls))>>
    ELSE <<>>

\* re.search(lit \s+ (.+)): greedy \s+ gives back one blank when nothing follows it
LitWsRestAt(s, lit, p) ==
    LET a == p + Len(lit)
        w == RunEnd(s, a, "IsSpace")
    IN  At(s, lit, p) /\ w >= a /\ (w < Len(s) \/ w > a)

LitWsRest(s, lit) ==
    IF \E p \in 1..Len(s) : LitWsRestAt(s, lit, p)
    THEN LET p == CHOOSE q \in 1..Len(s) :
                    LitWsRestAt(s, lit, q) /\ \A r \in 1..(q - 1) : ~LitWsRestAt(s, lit, r)
             w == RunEnd(s, p + Len(lit), "IsSpace")
         IN  <<IF w < Len(s) THEN SubSeq(s, w + 1, Len(s)) ELSE Ch(s, Len(s))>>
    ELSE <<>>

\* r'PEDIDO DE COMPRAS\s+(\S+)'
RePedidoDeCompras(s) == LitWsRun(s, "PEDIDO DE COMPRAS", "NotSpace")

\* r'R\. Social SUPERMERCADO JB[^\n]*?LTDA', group(0)
ReClienteJB(s) ==
    LET lit == "R. Social SUPERMERCADO JB"
        ok(p) == At(s, lit, p) /\ findFrom(s, "LTDA", p + Len(lit)) # 0
    IN  IF \E p \in 1..Len(s) : ok(p)
        THEN LET p == CHOOSE q \in 1..Len(s) : ok(q) /\ \A r \in 1..(q - 1) : ~ok(r)
             IN  <<SubSeq(s, p, findFrom(s, "LTDA", p + Len(lit)) + 3)>>
        ELSE <<>>

\* r'CNPJ\s+([-\d]{2,4})\s+([\d\.\/]{10,18})'
ReCnpjInvertidoAt(s, p) ==
    LET a  == p + 4
        w  == RunEnd(s, a, "IsSpace")
        e1 == RunEnd(s, w + 1, "IsDashDigit")
        w2 == RunEnd(s, e1 + 1, "IsSpace")
        e2 == RunEnd(s, w2 + 1, "IsBodyChar")
    IN  /\ At(s, "CNPJ", p) /\ w >= a
        /\ e1 - w >= 2 /\ e1 - w <= 4
        /\ w2 > e1
        /\ e2 - w2 >= 10

ReCnpjInvertido(s) ==
    IF \E p \in 1..Len(s) : ReCnpjInvertidoAt(s, p)
    THEN LET p  == CHOOSE q \in 1..Len(s) :
                     ReCnpjInvertidoAt(s, q) /\ \A r \in 1..(q - 1) : ~ReCnpjInvertidoAt(s, r)
             w  == RunEnd(s, p + 4, "IsSpace")
             e1 == RunEnd(s, w + 1, "IsDashDigit")
             w2 == RunEnd(s, e1 + 1, "IsSpace")
             e2 == RunEnd(s, w2 + 1, "IsBodyChar")
             n  == IF e2 - w2 > 18 THEN 18 ELSE e2 - w2
         IN  <<SubSeq(s, w + 1, e1), SubSeq(s, w2 + 1, w2 + n)>>
    ELSE <<>>

\* r'CNPJ\s+([\d\.\-\/]+)'
ReCnpj(s) == LitWsRun(s, "CNPJ", "IsCnpjChar")

\* r'Data limite para entrega\s+([\d\/]+)'
ReDataLimite(s) == LitWsRun(s, "Data limite para entrega", "IsDateChar")

\* r'o do frete\s+(\w+)'
ReFreteWord(s) == LitWsRun(s, "o do frete", "IsWord")

\* r'Data da emiss.+?\s+([\d\/]+)': lazy .+? stops at the first blank run that
\* is followed by a date character
ReDataEmissAt(s, p, j) ==
    LET w == RunEnd(s, j, "IsSpace")
    IN  /\ At(s, "Data da emiss", p)
        /\ j >= p + Len("Data da emiss") + 1 /\ j <= Len(s) /\ IsSpace(Ch(s, j))
        /\ w < Len(s) /\ IsDateChar(Ch(s, w + 1))

ReDataEmiss(s) ==
    IF \E p, j \in 1..Len(s) : ReDataEmissAt(s, p, j)
    THEN LET p == CHOOSE q \in 1..Len(s) :
                    /\ \E j \in 1..Len(s) : ReDataEmissAt(s, q, j)
                    /\ \A r \in 1..(q - 1) : \A j \in 1..Len(s) : ~ReDataEmissAt(s, r, j)
             j == CHOOSE k \in 1..Len(s) :
                    ReDataEmissAt(s, p, k) /\ \A r \in 1..(k - 1) : ~ReDataEmissAt(s, p, r)
             w == RunEnd(s, j, "IsSpace")
         IN  <<SubSeq(s, w + 1, RunEnd(s, w + 1, "IsDateChar"))>>
    ELSE <<>>

\* r'Valor total do pedido\s+([\d\.,]+)'
ReValorTotal(s) == LitWsRun(s, "Valor total do pedido", "IsValueChar")

\* re.search(r'\d+,\d+', s) finds something
HasDecimalComma(s) ==
    \E pos \in 1..(Len(s) - 2) : IsDigit(Ch(s, pos)) /\ Ch(s, pos + 1) = "," /\ IsDigit(Ch(s, pos + 2))

(***************************************************************************)
(* Records of the scan.                                                     *)
(***************************************************************************)
\* Python None for current_pedido / current_produto
None == [None |-> TRUE]

\* the Order dict ('Número do Pedido', 'Fornecedor', ...), every optional field empty
_novo_pedido_dict(numero) ==
    [NumeroDoPedido |-> numero,
     Fornecedor |-> "", CNPJFornecedor |-> "",
     Cliente |-> "", CNPJCliente |-> "",
     EnderecoEntrega |-> "", CidadeEntrega |-> "",
     DataLimiteEntrega |-> "", CondicaoFrete |-> "",
     DataEmissao |-> "", ValorTotal |-> ""]

\* the parsing context of one scan: the locals of the loop
Ctx(ps, prods, cp, cprod, insec) ==
    [pedidos |-> ps, produtos_list |-> prods, current_pedido |-> cp,
     current_produto |-> cprod, in_produtos_section |-> insec]

\* `if current_produto and current_produto.get('Código Fornecedor')`
TemCodigo(cprod) == cprod # None /\ cprod.CodigoFornecedor # ""

(***************************************************************************)
(* RedeBizExtractor._process_redebiz_text: the body of the loop for one     *)
(* line.  RedeBizLido is everything the body reads from the line (each rule *)
(* gives << >> when it does not fire, <<value>> when it does); RedeBizLinha *)
(* applies it to the context c.                                             *)
(***************************************************************************)
RedeBizLido(linha) ==
    LET l == strip(linha)
        social == In("R. Social", l) /\ In("REDE BIZ", l)
    IN  [marcador        |-> In("PEDIDO DE COMPRAS", l),
         numero_pedido   |-> IF RePedidoDeCompras(l) # <<>> THEN RePedidoDeCompras(l)[1] ELSE "",
         Fornecedor      |-> IF social /\ In("REDE BIZ SERVICOS E DISTRIBUICAO DE PRO", l)
                             THEN <<"REDE BIZ SERVICOS E DISTRIBUICAO">> ELSE <<>>,
         Cliente         |-> IF social /\ ReClienteJB(l) # <<>>
                             THEN <<replace(ReClienteJB(l)[1], "R. Social ", "")>> ELSE <<>>,
         CNPJCliente     |-> IF In("CNPJ", l) /\ ~In("REDE BIZ", l)
                             THEN IF ReCnpjInvertido(l) # <<>>
                                  THEN <<ReCnpjInvertido(l)[2] \o ReCnpjInvertido(l)[1]>>
                                  ELSE ReCnpj(l)
                             ELSE <<>>,
         CNPJFornecedor  |-> IF In("CNPJ", l) /\ In("REDE BIZ", l) THEN ReCnpj(l) ELSE <<>>,
         DataLimiteEntrega |-> IF In("Data limite para entrega", l) THEN ReDataLimite(l) ELSE <<>>,
         CondicaoFrete   |-> IF In("Condi", l) /\ In("o do frete", l) THEN ReFreteWord(l) ELSE <<>>,
         DataEmissao     |-> IF In("Data da emiss", l) THEN ReDataEmiss(l) ELSE <<>>,
         ValorTotal      |-> IF In("Valor total do pedido", l) THEN ReValorTotal(l) ELSE <<>>,
         inicio_secao    |-> In("Cod Forn", l) /\ In("Seq", l) /\ In("Produtos", l),
         totais          |-> In("TOTAIS", l) /\ HasDecimalComma(l),
         dados_adicionais |-> In("DADOS ADICIONAIS", l) \/ In("ADVERT", l)]

\* header rules of RedeBiz, applied in source order to the open Order: every rule
\* that fires assigns its attribute
RedeBizCabecalho(ped, f) ==
    LET p1 == IF f.Fornecedor # <<>> THEN [ped EXCEPT !.Fornecedor = f.Fornecedor[1]] ELSE ped
        p2 == IF f.Cliente # <<>> THEN [p1 EXCEPT !.Cliente = f.Cliente[1]] ELSE p1
        p3 == IF f.CNPJCliente # <<>> THEN [p2 EXCEPT !.CNPJCliente = f.CNPJCliente[1]] ELSE p2
        p4 == IF f.CNPJFornecedor # <<>> THEN [p3 EXCEPT !.CNPJFornecedor = f.CNPJFornecedor[1]] ELSE p3
        p5 == IF f.DataLimiteEntrega # <<>>
              THEN [p4 EXCEPT !.DataLimiteEntrega = f.DataLimiteEntrega[1]] ELSE p4
        p6 == IF f.CondicaoFrete # <<>> THEN [p5 EXCEPT !.CondicaoFrete = f.CondicaoFrete[1]] ELSE p5
        p7 == IF f.DataEmissao # <<>> THEN [p6 EXCEPT !.DataEmissao = f.DataEmissao[1]] ELSE p6
        p8 == IF f.ValorTotal # <<>> THEN [p7 EXCEPT !.ValorTotal = f.ValorTotal[1]] ELSE p7
    IN  p8

\* variant: the open Order is sealed by every marker, its number not compared
RedeBizMarcador_SemComparar(c, numero_pedido) ==
    IF c.current_pedido # None
    THEN [c EXCEPT !.pedidos = Append(@, c.current_pedido),
                   !.current_pedido = _novo_pedido_dict(numero_pedido),
                   !.in_produtos_section = FALSE]
    ELSE [c EXCEPT !.current_pedido = _novo_pedido_dict(numero_pedido),
                   !.in_produtos_section = FALSE]

\* the `if 'PEDIDO DE COMPRAS' in linha_limpa:` block, ending in `continue`
RedeBizMarcador(c, numero_pedido) ==
    IF c.current_pedido # None /\ c.current_pedido.NumeroDoPedido # numero_pedido
    THEN [c EXCEPT !.pedidos = Append(@, c.current_pedido),
                   !.current_pedido = _novo_pedido_dict(numero_pedido),
                   !.in_produtos_section = FALSE]
    ELSE IF c.current_pedido = None
    THEN [c EXCEPT !.current_pedido = _novo_pedido_dict(numero_pedido),
                   !.in_produtos_section = FALSE]
    ELSE c

\* section end: save the open product (when it has a supplier code) and leave the section
RedeBizFimSecao(c) ==
    [c EXCEPT !.produtos_list = IF TemCodigo(c.current_produto)
                                THEN Append(@, c.current_produto) ELSE @,
              !.in_produtos_section = FALSE,
              !.current_produto = None]

\* variant: `if not current_pedido: continue` guards the header rules only
RedeBizLinha_SemGuarda(c, f) ==
    IF f.marcador THEN RedeBizMarcador(c, f.numero_pedido)
    ELSE LET h == IF c.current_pedido = None THEN c
                  ELSE [c EXCEPT !.current_pedido = RedeBizCabecalho(c.current_pedido, f)]
         IN  IF f.inicio_secao THEN [h EXCEPT !.in_produtos_section = TRUE]
             ELSE IF h.in_produtos_section /\ f.totais THEN RedeBizFimSecao(h)
             ELSE IF f.dados_adicionais THEN RedeBizFimSecao(h)
             ELSE h

\* the body of the loop of _process_redebiz_text for one line
RedeBizLinha(c, f) ==
    IF f.marcador THEN RedeBizMarcador(c, f.numero_pedido)
    ELSE IF c.current_pedido = None THEN c
    ELSE LET h == [c EXCEPT !.current_pedido = RedeBizCabecalho(c.current_pedido, f)]
         IN  IF f.inicio_secao THEN [h EXCEPT !.in_produtos_section = TRUE]
             ELSE IF h.in_produtos_section /\ f.totais THEN RedeBizFimSecao(h)
             ELSE IF f.dados_adicionais THEN RedeBizFimSecao(h)
             ELSE h

(***************************************************************************)
(* MondelezExtractor._process_text: line normaliser (steps 1-3 of the loop). *)
(***************************************************************************)
hard_terms ==
    <<"DADOS DO COD", "DADOS DO CÓD", "DADOS COMERCIAIS",
      "DADOS PARA FATURAMENTO", "RAZÃO SOCIAL:", "RAZAO SOCIAL:",
      "SUPERUS", "PÁGINA:", "PAGINA:", "COD/NOME", "COD/ NOME", "DADOS DO">>

triggers ==
    <<"Usuário:", "Emissão:", "Fornecedor:",
      "Substituição", "Data Entrega:", "Data Fat:", "Número de Registros",
      "Valor Total", "Vendedor", "Comprador", "Direção">>

\* s[:n] of Python
Prefix(s, n) == IF n >= Len(s) THEN s ELSE Slice(s, 1, n)

\* the `for term in hard_terms` loop: cut linha_limpa where the term starts in upper_line
RECURSIVE CorteHard(_, _, _)
CorteHard(linha_limpa, upper_line, k) ==
    IF k > Len(hard_terms) THEN linha_limpa
    ELSE LET idx == find(upper_line, hard_terms[k])
         IN  IF idx # 0
             THEN CorteHard(strip(Prefix(linha_limpa, idx - 1)), Prefix(upper_line, idx - 1), k + 1)
             ELSE CorteHard(linha_limpa, upper_line, k + 1)

\* lit matches at p ignoring case (re.IGNORECASE)
AtCI(s, lit, p) ==
    p >= 1 /\ p + Len(lit) - 1 <= Len(s) /\ upper(SubSeq(s, p, p + Len(lit) - 1)) = upper(lit)

TriggerAt(s, p) == \E k \in 1..Len(triggers) : AtCI(s, triggers[k], p)

\* variant: the piece before the trigger is kept with its trailing blank
CorteTrigger_SemStrip(s) ==
    IF \E p \in 1..Len(s) : TriggerAt(s, p)
    THEN Slice(s, 1, (CHOOSE p \in 1..Len(s) :
                         TriggerAt(s, p) /\ \A r \in 1..(p - 1) : ~TriggerAt(s, r)) - 1)
    ELSE s

\* re.split(split_pattern, linha_limpa, maxsplit=1, flags=re.IGNORECASE)[0].strip()
CorteTrigger(s) ==
    IF \E p \in 1..Len(s) : TriggerAt(s, p)
    THEN strip(Slice(s, 1, (CHOOSE p \in 1..Len(s) :
                               TriggerAt(s, p) /\ \A r \in 1..(p - 1) : ~TriggerAt(s, r)) - 1))
    ELSE strip(s)

Normaliza(linha) ==
    LET linha_limpa == join(" ", split(linha))
    IN  CorteTrigger(CorteHard(linha_limpa, upper(linha_limpa), 1))

(***************************************************************************)
(* Order-start candidates of a line.                                        *)
(***************************************************************************)
AltsPedido == <<"PEDIDO DE COMPRAS", "Número do Pedido", "Pedido", "Nº", "Numero">>

\* alternative k, then [:\s]+, then a digit, starting at p
PedidoAlt(s, p, k) ==
    LET a == p + Len(AltsPedido[k])
        w == RunEnd(s, a, "IsColonSpace")
    IN  AtCI(s, AltsPedido[k], p) /\ w >= a /\ w < Len(s) /\ IsDigit(Ch(s, w + 1))

PedidoAt(s, p) == \E k \in 1..Len(AltsPedido) : PedidoAlt(s, p, k)

\* re.finditer(r'(?:PEDIDO DE COMPRAS|Número do Pedido|Pedido|Nº|Numero)[:\s]+(\d+)',
\*             linha_limpa, re.IGNORECASE): group(1) of the successive matches
RECURSIVE matches_pedido(_, _)
matches_pedido(s, from) ==
    IF \E p \in from..Len(s) : PedidoAt(s, p)
    THEN LET p == CHOOSE q \in from..Len(s) : PedidoAt(s, q) /\ \A r \in from..(q - 1) : ~PedidoAt(s, r)
             k == CHOOSE j \in 1..Len(AltsPedido) :
                     PedidoAlt(s, p, j) /\ \A r \in 1..(j - 1) : ~PedidoAlt(s, p, r)
             w == RunEnd(s, p + Len(AltsPedido[k]), "IsColonSpace")
             e == RunEnd(s, w + 1, "IsDigit")
         IN  <<SubSeq(s, w + 1, e)>> \o matches_pedido(s, e + 1)
    ELSE <<>>

\* variant: the filter tests the length only
CandValido_SemAnos(cand_numero) == Len(cand_numero) > 2

\* the validity filter of a candidate
CandValido(cand_numero) == Len(cand_numero) > 2 /\ cand_numero \notin {"2023", "2024", "2025"}

\* variant: the new Order keeps the values of the Order it replaces
RECURSIVE TrocaPedido_Herda(_, _, _)
TrocaPedido_Herda(c, cands, k) ==
    IF k > Len(cands) THEN c
    ELSE IF CandValido(cands[k])
    THEN IF c.current_pedido # None /\ c.current_pedido.NumeroDoPedido # cands[k]
         THEN [c EXCEPT !.pedidos = Append(@, c.current_pedido),
                        !.current_pedido = [@ EXCEPT !.NumeroDoPedido = cands[k]],
                        !.in_produtos_section = FALSE]
         ELSE IF c.current_pedido = None
         THEN [c EXCEPT !.current_pedido = _novo_pedido_dict(cands[k]),
                        !.in_produtos_section = FALSE]
         ELSE TrocaPedido_Herda(c, cands, k + 1)
    ELSE TrocaPedido_Herda(c, cands, k + 1)

\* the `for match in matches_pedido` loop from candidate k on
RECURSIVE TrocaPedido(_, _, _)
TrocaPedido(c, cands, k) ==
    IF k > Len(cands) THEN c
    ELSE IF CandValido(cands[k])
    THEN IF c.current_pedido # None /\ c.current_pedido.NumeroDoPedido # cands[k]
         THEN [c EXCEPT !.pedidos = Append(@, c.current_pedido),
                        !.current_pedido = _novo_pedido_dict(cands[k]),
                        !.in_produtos_section = FALSE]
         ELSE IF c.current_pedido = None
         THEN [c EXCEPT !.current_pedido = _novo_pedido_dict(cands[k]),
                        !.in_produtos_section = FALSE]
         ELSE TrocaPedido(c, cands, k + 1)
    ELSE TrocaPedido(c, cands, k + 1)

(***************************************************************************)
(* Header rules of MondelezExtractor._process_text.                         *)
(***************************************************************************)
\* variant: the pattern asks for three leading digits
CnpjShapeAt_TresDigitos(s, p) ==
    LET shape == "ddd.ddd.ddd/dddd-dd"
    IN  /\ p + Len(shape) - 1 <= Len(s)
        /\ \A k \in 1..Len(shape) :
              IF Ch(shape, k) = "d" THEN IsDigit(Ch(s, p + k - 1))
              ELSE Ch(s, p + k - 1) = Ch(shape, k)

\* dd.ddd.ddd/dddd-dd at position p
CnpjShapeAt(s, p) ==
    LET shape == "dd.ddd.ddd/dddd-dd"
    IN  /\ p + Len(shape) - 1 <= Len(s)
        /\ \A k \in 1..Len(shape) :
              IF Ch(shape, k) = "d" THEN IsDigit(Ch(s, p + k - 1))
              ELSE Ch(s, p + k - 1) = Ch(shape, k)

\* re.findall(r'(\d{2}\.\d{3}\.\d{3}\/\d{4}-\d{2})', s): the first element, << >> when empty
cnpjs(s) ==
    IF \E p \in 1..Len(s) : CnpjShapeAt(s, p)
    THEN LET p == CHOOSE q \in 1..Len(s) : CnpjShapeAt(s, q) /\ \A r \in 1..(q - 1) : ~CnpjShapeAt(s, r)
         IN  <<SubSeq(s, p, p + 17)>>
    ELSE <<>>

\* r'CNPJ\s+-(\d{2})\s+([\d\.\/]+)'
match_invertAt(s, p) ==
    LET w  == RunEnd(s, p + 4, "IsSpace")
        w2 == RunEnd(s, w + 4, "IsSpace")
    IN  /\ At(s, "CNPJ", p) /\ w >= p + 4
        /\ w + 3 <= Len(s) /\ Ch(s, w + 1) = "-" /\ IsDigit(Ch(s, w + 2)) /\ IsDigit(Ch(s, w + 3))
        /\ w2 >= w + 4 /\ w2 < Len(s) /\ IsBodyChar(Ch(s, w2 + 1))

match_invert(s) ==
    IF \E p \in 1..Len(s) : match_invertAt(s, p)
    THEN LET p  == CHOOSE q \in 1..Len(s) : match_invertAt(s, q) /\ \A r \in 1..(q - 1) : ~match_invertAt(s, r)
             w  == RunEnd(s, p + 4, "IsSpace")
             w2 == RunEnd(s, w + 4, "IsSpace")
         IN  <<SubSeq(s, w + 2, w + 3), SubSeq(s, w2 + 1, RunEnd(s, w2 + 1, "IsBodyChar"))>>
    ELSE <<>>

\* variant: the client name is assigned by every name line
MondelezCabecalho_SemGuardaCliente(ped, f) ==
    LET p1 == IF f.r_social
              THEN IF f.rede_biz_upper /\ ped.Fornecedor = ""
                   THEN [ped EXCEPT !.Fornecedor = "REDE BIZ SERVICOS E DISTRIBUICAO"]
                   ELSE IF f.Cliente # <<>>
                        THEN [ped EXCEPT !.Cliente = f.Cliente[1]] ELSE ped
              ELSE ped
        p2 == IF f.CNPJFornecedor # <<>> THEN [p1 EXCEPT !.CNPJFornecedor = f.CNPJFornecedor[1]]
              ELSE IF f.CNPJCliente # <<>> THEN [p1 EXCEPT !.CNPJCliente = f.CNPJCliente[1]]
              ELSE p1
        p3 == IF f.DataLimiteEntrega # <<>>
              THEN [p2 EXCEPT !.DataLimiteEntrega = f.DataLimiteEntrega[1]] ELSE p2
        p4 == IF f.CondicaoFrete # <<>> THEN [p3 EXCEPT !.CondicaoFrete = f.CondicaoFrete[1]] ELSE p3
        p5 == IF f.DataEmissao # <<>> THEN [p4 EXCEPT !.DataEmissao = f.DataEmissao[1]] ELSE p4
        p6 == IF f.ValorTotal # <<>> THEN [p5 EXCEPT !.ValorTotal = f.ValorTotal[1]] ELSE p5
    IN  p6

\* header rules of Mondelez applied in source order; supplier and client name are
\* assigned only while empty, every other rule that fires assigns its attribute
MondelezCabecalho(ped, f) ==
    LET p1 == IF f.r_social
              THEN IF f.rede_biz_upper /\ ped.Fornecedor = ""
                   THEN [ped EXCEPT !.Fornecedor = "REDE BIZ SERVICOS E DISTRIBUICAO"]
                   ELSE IF ped.Cliente = "" /\ f.Cliente # <<>>
                        THEN [ped EXCEPT !.Cliente = f.Cliente[1]] ELSE ped
              ELSE ped
        p2 == IF f.CNPJFornecedor # <<>> THEN [p1 EXCEPT !.CNPJFornecedor = f.CNPJFornecedor[1]]
              ELSE IF f.CNPJCliente # <<>> THEN [p1 EXCEPT !.CNPJCliente = f.CNPJCliente[1]]
              ELSE p1
        p3 == IF f.DataLimiteEntrega # <<>>
              THEN [p2 EXCEPT !.DataLimiteEntrega = f.DataLimiteEntrega[1]] ELSE p2
        p4 == IF f.CondicaoFrete # <<>> THEN [p3 EXCEPT !.CondicaoFrete = f.CondicaoFrete[1]] ELSE p3
        p5 == IF f.DataEmissao # <<>> THEN [p4 EXCEPT !.DataEmissao = f.DataEmissao[1]] ELSE p4
        p6 == IF f.ValorTotal # <<>> THEN [p5 EXCEPT !.ValorTotal = f.ValorTotal[1]] ELSE p5
    IN  p6

(***************************************************************************)
(* MondelezExtractor._clean_garbled_line.                                   *)
(***************************************************************************)
\* re.findall(r'\b[A-Z]{3,}\b', linha): runs of 3+ capitals with a word boundary on both sides
RECURSIVE desc_words(_, _)
desc_words(linha, pos) ==
    IF pos > Len(linha) THEN <<>>
    ELSE IF ~IsAZ(Ch(linha, pos)) THEN desc_words(linha, pos + 1)
    ELSE LET e == RunEnd(linha, pos, "IsAZ")
         IN  (IF /\ e - pos + 1 >= 3
                 /\ (pos = 1 \/ ~IsWord(Ch(linha, pos - 1)))
                 /\ (e = Len(linha) \/ ~IsWord(Ch(linha, e + 1)))
              THEN <<SubSeq(linha, pos, e)>> ELSE <<>>) \o desc_words(linha, e + 1)

\* re.findall(r'\d+', s): the maximal digit runs
RECURSIVE DigitRuns(_, _)
DigitRuns(s, pos) ==
    IF pos > Len(s) THEN <<>>
    ELSE IF ~IsDigit(Ch(s, pos)) THEN DigitRuns(s, pos + 1)
    ELSE LET e == RunEnd(s, pos, "IsDigit") IN <<SubSeq(s, pos, e)>> \o DigitRuns(s, e + 1)

\* numbers = re.findall(r'\d+', re.sub(r'[a-zA-Z\.]', ' ', linha))
numbers(linha) ==
    DigitRuns(subClass(linha, 1, CharsOf(AsciiUpper \o AsciiLower \o "."), TRUE, " "), 1)

\* first element of the sequence at an index of K, "" when K is empty
FirstWith(seq, K) ==
    IF K # {} THEN seq[CHOOSE k \in K : \A j \in K : k <= j] ELSE ""

\* the `for num in numbers` classification by length
GarbledEan(nums) == FirstWith(nums, {k \in 1..Len(nums) : Len(nums[k]) = 13})

GarbledCode(nums) == FirstWith(nums, {k \in 1..Len(nums) : Len(nums[k]) = 6})

\* variant: the quantity is 1 when no run qualifies
GarbledQty_Padrao(nums) ==
    IF \E k \in 1..Len(nums) : Len(nums[k]) = 2 \/ (Len(nums[k]) = 1 /\ nums[k] # "0")
    THEN FirstWith(nums, {k \in 1..Len(nums) : Len(nums[k]) = 2 \/ (Len(nums[k]) = 1 /\ nums[k] # "0")})
    ELSE "1"

GarbledQty(nums) ==
    FirstWith(nums, {k \in 1..Len(nums) : Len(nums[k]) = 2 \/ (Len(nums[k]) = 1 /\ nums[k] # "0")})

\* potential_values: the blank-separated items of the line without ASCII letters,
\* reduced to digits and commas, that hold a comma and more than 3 characters
RECURSIVE potential_values(_, _)
potential_values(nums_commas, k) ==
    IF k > Len(nums_commas) THEN <<>>
    ELSE LET clean_item == subClass(nums_commas[k], 1, DigitChars \cup {","}, FALSE, "")
         IN  (IF In(",", clean_item) /\ Len(clean_item) > 3 THEN <<clean_item>> ELSE <<>>)
             \o potential_values(nums_commas, k + 1)

\* variant: the pair is made of the last two runs whenever fewer than two
\* tokens were recovered
valores_SintetizaComUm(linha) ==
    LET nums == numbers(linha)
        pv   == IF In(",", linha)
                THEN potential_values(
                        split(subClass(linha, 1, CharsOf(AsciiUpper \o AsciiLower), TRUE, "")), 1)
                ELSE <<>>
    IN  IF Len(pv) >= 2 THEN pv
        ELSE IF Len(nums) >= 5
        THEN <<nums[Len(nums) - 1] \o ",00", nums[Len(nums)] \o ",00">>
        ELSE pv

valores(linha) ==
    LET nums == numbers(linha)
        pv   == IF In(",", linha)
                THEN potential_values(
                        split(subClass(linha, 1, CharsOf(AsciiUpper \o AsciiLower), TRUE, "")), 1)
                ELSE <<>>
    IN  IF pv # <<>> THEN pv
        ELSE IF Len(nums) >= 5
        THEN <<nums[Len(nums) - 1] \o ",00", nums[Len(nums)] \o ",00">>
        ELSE <<>>

\* variant: the supplier code comes first in the rebuilt row
_clean_garbled_line_CodigoPrimeiro(linha) ==
    LET words == desc_words(linha, 1)
        desc  == join(" ", words)
        nums  == numbers(linha)
        ean   == GarbledEan(nums)
        code  == GarbledCode(nums)
        qty   == GarbledQty(nums)
        vals  == valores(linha)
    IN  IF ean # "" /\ code # "" /\ desc # "" /\ qty # ""
        THEN IF Len(vals) >= 2
             THEN join(" ", <<code, ean, desc, qty, "UN", "1", "UN", "0,00", "0,00",
                              vals[Len(vals) - 1], vals[Len(vals) - 1], vals[Len(vals)]>>)
             ELSE join(" ", <<code, ean, desc, qty, "UN", "1", "UN", "0,00", "0,00",
                              "10,00", "10,00", "100,00">>)
        ELSE linha

_clean_garbled_line(linha) ==
    LET words == desc_words(linha, 1)
        desc  == join(" ", words)
        nums  == numbers(linha)
        ean   == GarbledEan(nums)
        code  == GarbledCode(nums)
        qty   == GarbledQty(nums)
        vals  == valores(linha)
    IN  IF ean # "" /\ code # "" /\ desc # "" /\ qty # ""
        THEN IF Len(vals) >= 2
             THEN join(" ", <<ean, code, desc, qty, "UN", "1", "UN", "0,00", "0,00",
                              vals[Len(vals) - 1], vals[Len(vals) - 1], vals[Len(vals)]>>)
             ELSE join(" ", <<ean, code, desc, qty, "UN", "1", "UN", "0,00", "0,00",
                              "10,00", "10,00", "100,00">>)
        ELSE linha

(***************************************************************************)
(* Row matchers of MondelezExtractor._process_text.  They are applied to    *)
(* linha_limpa_processada, whose words are separated by single blanks (it   *)
(* is a normalised line or a reconstructed row), so every \s+ of the        *)
(* patterns is one word gap and the patterns are matched over t = split(s). *)
(***************************************************************************)
Units == {"UN", "CX", "PC", "KG", "LT"}

AllDigits(t) == Len(t) > 0 /\ \A k \in 1..Len(t) : IsDigit(Ch(t, k))

AllValue(t) == Len(t) > 0 /\ \A k \in 1..Len(t) : IsValueChar(Ch(t, k))

\* x is \d+,\d+
IsDecimal(x) ==
    \E c \in 2..(Len(x) - 1) :
        Ch(x, c) = "," /\ \A k \in (1..Len(x)) \ {c} : IsDigit(Ch(x, k))

\* .*?(\d+,\d+) ending at the end of word w and starting at from or later:
\* the earliest start wins (lazy .*?); 0 when there is none
DecSuffix(w, from) ==
    IF \E q \in from..Len(w) : IsDecimal(SubSeq(w, q, Len(w)))
    THEN CHOOSE q \in from..Len(w) :
            IsDecimal(SubSeq(w, q, Len(w))) /\ \A r \in from..(q - 1) : ~IsDecimal(SubSeq(w, r, Len(w)))
    ELSE 0

\* words k (quantity) and k+1 (unit) fit, the description starts at word d0, and
\* the line ends with <... \d+,\d+> <[\d,.]+> <[\d,.]+>
SmartK(t, d0, k) ==
    LET n == Len(t)
    IN  /\ k >= d0 + 1 /\ k + 1 <= n - 2
        /\ AllDigits(t[k])
        /\ Len(t[k + 1]) >= 2 /\ SubSeq(t[k + 1], 1, 2) \in Units
        /\ AllValue(t[n]) /\ AllValue(t[n - 1])
        /\ DecSuffix(t[n - 2], IF n - 2 = k + 1 THEN 3 ELSE 1) # 0

SmartGroups(t, d0, n2) ==
    LET n == Len(t)
        k == CHOOSE j \in 1..n : SmartK(t, d0, j) /\ \A r \in 1..(j - 1) : ~SmartK(t, d0, r)
        q == DecSuffix(t[n - 2], IF n - 2 = k + 1 THEN 3 ELSE 1)
    IN  <<t[1], n2, join(" ", SubSeq(t, d0, k - 1)), t[k], SubSeq(t[k + 1], 1, 2),
          SubSeq(t[n - 2], q, Len(t[n - 2])), t[n]>>

\* regex_smart = r'^\s*(\d+)\s+(?:(\d+)\s+)?(.+?)\s+(\d+)\s+(UN|CX|PC|KG|LT).*?(\d+,\d+)\s+[\d,\.]+\s+([\d,\.]+)$'
\* groups 1..7, group 2 = "" when it did not take part; the optional second
\* number is tried first and given up when the rest cannot match with it
match_smart(s) ==
    LET t == split(s)
        n == Len(t)
    IN  IF n < 1 \/ ~AllDigits(t[1]) THEN <<>>
        ELSE IF n >= 2 /\ AllDigits(t[2]) /\ \E k \in 1..n : SmartK(t, 3, k)
        THEN SmartGroups(t, 3, t[2])
        ELSE IF \E k \in 1..n : SmartK(t, 2, k)
        THEN SmartGroups(t, 2, "")
        ELSE <<>>

\* words j, j+1, j+2 are the three decimal fields, then unit, sequence and description
FormatBJ(t, j) ==
    /\ j >= 3 /\ j + 5 <= Len(t)
    /\ AllValue(t[j]) /\ AllValue(t[j + 1]) /\ AllValue(t[j + 2])
    /\ t[j + 3] \in Units
    /\ AllDigits(t[j + 4])

\* r'^(\d{6})\s+.*?\s+([\d\.,]+)\s+([\d\.,]+)\s+([\d\.,]+)\s+(UN|CX|PC|KG|LT)\s+(\d+)\s+(.+)$'
match_format_b(s) ==
    LET t == split(s)
        n == Len(t)
    IN  IF n >= 1 /\ AllDigits(t[1]) /\ Len(t[1]) = 6 /\ \E j \in 1..n : FormatBJ(t, j)
        THEN LET j == CHOOSE q \in 1..n : FormatBJ(t, q) /\ \A r \in 1..(q - 1) : ~FormatBJ(t, r)
             IN  <<t[1], t[j], t[j + 1], t[j + 2], t[j + 3], t[j + 4], join(" ", SubSeq(t, j + 5, n))>>
        ELSE <<>>

\* r'EANs?:\s*([\d,\s]+)' at p: a is the position after the colon
EanColon(s, p) ==
    IF At(s, "EANs:", p) THEN p + 5 ELSE IF At(s, "EAN:", p) THEN p + 4 ELSE 0

match_eanAt(s, p) ==
    EanColon(s, p) # 0 /\ RunEnd(s, EanColon(s, p), "IsEanListChar") >= EanColon(s, p)

match_ean(s) ==
    IF \E p \in 1..Len(s) : match_eanAt(s, p)
    THEN LET p == CHOOSE q \in 1..Len(s) : match_eanAt(s, q) /\ \A r \in 1..(q - 1) : ~match_eanAt(s, r)
             a == EanColon(s, p)
             e == RunEnd(s, a, "IsEanListChar")
             w == RunEnd(s, a, "IsSpace")
         IN  <<IF w < e THEN SubSeq(s, w + 1, e) ELSE Ch(s, e)>>
    ELSE <<>>

blocked ==
    {"DADOS", "TOTAL", "PÁGINA", "PAGINA", "SUPERUS", "COD/NOME", "CODIGO FORNECEDOR",
     "QUANTIDADE DE PEÇAS", "DATA DE ENTREGA", "PRAZO", "E-MAIL", "FRETE",
     "TRANSPORTADORA", "DATA DE VENCIMENTO", "TIPO DE TROCA"}

ignored == {"Bairro", "Cidade", "CNPJ", "Endereço", "Telefone", "Inscrição", "Pedido"}

\* `len(linha_limpa) > 3 and not re.match(r'^\d', linha_limpa)` and neither blocked nor ignored
Anexavel(l) ==
    /\ Len(l) > 3 /\ ~IsDigit(Ch(l, 1))
    /\ ~\E b \in blocked : In(b, upper(l))
    /\ ~\E x \in ignored : In(x, l)

InicioSecao(l) ==
    \/ In("Cod", l) /\ In("Prod", l)
    \/ In("Cod", l) /\ In("Forn", l)
    \/ In("Codigo", l) /\ In("Descricao", l)

FimSecao(l) == In("TOTAIS", l) \/ In("DADOS ADICIONAIS", l) \/ In("Total:", l)

\* everything the body of the loop of _process_text reads from one line (each
\* rule gives << >> when it does not fire, <<value>> when it does)
MondelezLido(linha) ==
    LET l == Normaliza(linha)
        linha_limpa_processada == _clean_garbled_line(l)
    IN  [linha_limpa     |-> l,
         matches_pedido  |-> matches_pedido(l, 1),
         r_social        |-> In("R. Social", l),
         rede_biz_upper  |-> In("REDE BIZ", upper(l)),
         Cliente         |-> IF LitWsRest(l, "R. Social") # <<>>
                             THEN <<strip(LitWsRest(l, "R. Social")[1])>> ELSE <<>>,
         CNPJFornecedor  |-> IF In("CNPJ", l) /\ cnpjs(l) # <<>> /\ In("REDE BIZ", l)
                             THEN cnpjs(l) ELSE <<>>,
         CNPJCliente     |-> IF In("CNPJ", l)
                             THEN IF cnpjs(l) # <<>>
                                  THEN IF In("REDE BIZ", l) THEN <<>> ELSE cnpjs(l)
                                  ELSE IF match_invert(l) # <<>>
                                       THEN <<match_invert(l)[2] \o "-" \o match_invert(l)[1]>>
                                       ELSE <<>>
                             ELSE <<>>,
         DataLimiteEntrega |-> IF In("Data limite para entrega", l) THEN ReDataLimite(l) ELSE <<>>,
         CondicaoFrete   |-> IF In("Condição do frete", l) /\ LitWsRest(l, "Condição do frete") # <<>>
                             THEN <<strip(LitWsRest(l, "Condição do frete")[1])>> ELSE <<>>,
         DataEmissao     |-> IF In("Data da emissão", l)
                             THEN LitWsRun(l, "Data da emissão", "IsDateChar") ELSE <<>>,
         ValorTotal      |-> IF In("Valor total do pedido", l) THEN ReValorTotal(l) ELSE <<>>,
         inicio_secao    |-> InicioSecao(l),
         fim_secao       |-> FimSecao(l),
         cabecalho_repetido |-> In("Cod Forn", l) \/ In("Valor Unit", l),
         match_smart     |-> match_smart(linha_limpa_processada),
         match_format_b  |-> match_format_b(linha_limpa_processada),
         tem_ean         |-> In("EAN", l),
         match_ean       |-> IF match_ean(l) # <<>> THEN <<strip(match_ean(l)[1])>> ELSE <<>>,
         anexavel        |-> Anexavel(l)]

\* variant: the text is appended without the separating blank
Continuacao_SemEspaco(prod, f) ==
    IF f.tem_ean
    THEN IF f.match_ean # <<>> THEN [prod EXCEPT !.EAN = f.match_ean[1]] ELSE prod
    ELSE IF f.anexavel
         THEN [prod EXCEPT !.Descricao = @ \o f.linha_limpa]
         ELSE prod

\* the continuation branch: `elif current_produto and in_produtos_section:`
Continuacao(prod, f) ==
    IF f.tem_ean
    THEN IF f.match_ean # <<>> THEN [prod EXCEPT !.EAN = f.match_ean[1]] ELSE prod
    ELSE IF f.anexavel
         THEN [prod EXCEPT !.Descricao = @ \o " " \o f.linha_limpa]
         ELSE prod

\* variant: both identifiers of a row are classified by their length
ProdutoSmart_SempreTamanho(numero, g) ==
    LET n1 == g[1]
        n2 == g[2]
        ean  == IF Len(n1) > 7 THEN n1 ELSE IF Len(n2) > 7 THEN n2 ELSE ""
        code == IF Len(n1) <= 7 THEN n1 ELSE IF Len(n2) <= 7 THEN n2 ELSE ""
    IN  [NumeroDoPedido |-> numero, CodigoFornecedor |-> code, ValorUnit |-> g[6],
         Quantidade |-> g[4], Embalagem |-> g[5], Sequencia |-> "0",
         Descricao |-> strip(g[3]), EAN |-> ean]

\* the ProductLine dict opened by regex_smart
ProdutoSmart(numero, g) ==
    LET n1 == g[1]
        n2 == g[2]
        ean  == IF n2 # "" THEN n1 ELSE IF Len(n1) > 7 THEN n1 ELSE ""
        code == IF n2 # "" THEN n2 ELSE IF Len(n1) > 7 THEN "" ELSE n1
    IN  [NumeroDoPedido |-> numero, CodigoFornecedor |-> code, ValorUnit |-> g[6],
         Quantidade |-> g[4], Embalagem |-> g[5], Sequencia |-> "0",
         Descricao |-> strip(g[3]), EAN |-> ean]

\* variant: the ProductLine of format B is opened without the order number
ProdutoFormatB_SemNumero(numero, g) ==
    [NumeroDoPedido |-> "", CodigoFornecedor |-> g[1], ValorUnit |-> g[3],
     Quantidade |-> g[4], Embalagem |-> g[5], Sequencia |-> g[6],
     Descricao |-> strip(g[7]), EAN |-> ""]

\* the ProductLine dict opened by format B
ProdutoFormatB(numero, g) ==
    [NumeroDoPedido |-> numero, CodigoFornecedor |-> g[1], ValorUnit |-> g[3],
     Quantidade |-> g[4], Embalagem |-> g[5], Sequencia |-> g[6],
     Descricao |-> strip(g[7]), EAN |-> ""]

\* variant: the saved product is put at the front of the list
SalvaProduto_NaFrente(c) ==
    IF c.current_produto # None THEN <<c.current_produto>> \o c.produtos_list
    ELSE c.produtos_list

\* variant: the list is rebound to the saved product instead of growing
SalvaProduto_Substitui(c) ==
    IF c.current_produto # None THEN <<c.current_produto>>
    ELSE c.produtos_list

\* `if current_produto: produtos_list.append(current_produto.copy())`
SalvaProduto(c) ==
    IF c.current_produto # None THEN Append(c.produtos_list, c.current_produto)
    ELSE c.produtos_list

\* variant: the continuation branch does not test the section flag
MondelezProduto_SemSecao(c, f) ==
    IF f.match_smart # <<>>
    THEN [c EXCEPT !.in_produtos_section = TRUE,
                   !.produtos_list = SalvaProduto(c),
                   !.current_produto = ProdutoSmart(c.current_pedido.NumeroDoPedido, f.match_smart)]
    ELSE IF f.match_format_b # <<>>
    THEN [c EXCEPT !.in_produtos_section = TRUE,
                   !.produtos_list = SalvaProduto(c),
                   !.current_produto = ProdutoFormatB(c.current_pedido.NumeroDoPedido, f.match_format_b)]
    ELSE IF c.current_produto # None
    THEN [c EXCEPT !.current_produto = Continuacao(@, f)]
    ELSE c

\* the `if True:` block: row matchers, then continuation
MondelezProduto(c, f) ==
    IF f.match_smart # <<>>
    THEN [c EXCEPT !.in_produtos_section = TRUE,
                   !.produtos_list = SalvaProduto(c),
                   !.current_produto = ProdutoSmart(c.current_pedido.NumeroDoPedido, f.match_smart)]
    ELSE IF f.match_format_b # <<>>
    THEN [c EXCEPT !.in_produtos_section = TRUE,
                   !.produtos_list = SalvaProduto(c),
                   !.current_produto = ProdutoFormatB(c.current_pedido.NumeroDoPedido, f.match_format_b)]
    ELSE IF c.current_produto # None /\ c.in_produtos_section
    THEN [c EXCEPT !.current_produto = Continuacao(@, f)]
    ELSE c

\* variant: the section is left and the open product is dropped, not saved
MondelezFimSecao_SemSalvar(c) ==
    [c EXCEPT !.current_produto = None,
              !.in_produtos_section = FALSE]

\* the section-end branch: seal the open product and leave the section
MondelezFimSecao(c) ==
    [c EXCEPT !.produtos_list = SalvaProduto(c),
              !.current_produto = None,
              !.in_produtos_section = FALSE]

\* variant: the candidate loop has no `break`, every valid candidate of the
\* line is compared with the Order open at that moment
MondelezLinha_SemBreak(c, f) ==
    LET cands == f.matches_pedido
        t[k \in 0..Len(cands)] ==
            IF k = 0 THEN c
            ELSE IF ~CandValido(cands[k]) THEN t[k - 1]
            ELSE IF t[k - 1].current_pedido = None
            THEN [t[k - 1] EXCEPT !.current_pedido = _novo_pedido_dict(cands[k]),
                                  !.in_produtos_section = FALSE]
            ELSE IF t[k - 1].current_pedido.NumeroDoPedido # cands[k]
            THEN [t[k - 1] EXCEPT !.pedidos = Append(@, t[k - 1].current_pedido),
                                  !.current_pedido = _novo_pedido_dict(cands[k]),
                                  !.in_produtos_section = FALSE]
            ELSE t[k - 1]
        c1 == t[Len(cands)]
    IN  IF c1.current_pedido = None THEN c1
        ELSE LET h == [c1 EXCEPT !.current_pedido = MondelezCabecalho(c1.current_pedido, f)]
             IN  IF f.inicio_secao THEN [h EXCEPT !.in_produtos_section = TRUE]
                 ELSE IF h.in_produtos_section /\ f.fim_secao THEN MondelezFimSecao(h)
                 ELSE IF h.in_produtos_section /\ f.cabecalho_repetido THEN h
                 ELSE MondelezProduto(h, f)

\* the body of the loop of _process_text for one line
MondelezLinha(c, f) ==
    LET c1 == TrocaPedido(c, f.matches_pedido, 1)
    IN  IF c1.current_pedido = None THEN c1
        ELSE LET h == [c1 EXCEPT !.current_pedido = MondelezCabecalho(c1.current_pedido, f)]
             IN  IF f.inicio_secao THEN [h EXCEPT !.in_produtos_section = TRUE]
                 ELSE IF h.in_produtos_section /\ f.fim_secao THEN MondelezFimSecao(h)
                 ELSE IF h.in_produtos_section /\ f.cabecalho_repetido THEN h
                 ELSE MondelezProduto(h, f)

(***************************************************************************)
(* Numeric normaliser and the DataFrames returned by a scan.                *)
(* A float is the decimal m * 10^(-e), kept normalised (no trailing zero in *)
(* the fraction), so that 2,00 and 2 are the same number.                   *)
(***************************************************************************)
DigitVal(c) == CHOOSE d \in 0..9 : Ch("0123456789", d + 1) = c

RECURSIVE ParseNat(_)
ParseNat(t) == IF Len(t) = 0 THEN 0 ELSE 10 * ParseNat(Slice(t, 1, Len(t) - 1)) + DigitVal(Ch(t, Len(t)))

RECURSIVE Dec(_, _)
Dec(m, e) == IF e > 0 /\ m % 10 = 0 THEN Dec(m \div 10, e - 1) ELSE [m |-> m, e |-> e]

\* float(t) for a text of digits and periods: [ok |-> FALSE] stands for ValueError
float(t) ==
    LET dots == {k \in 1..Len(t) : Ch(t, k) = "."}
    IN  IF /\ \A k \in 1..Len(t) : IsDigit(Ch(t, k)) \/ Ch(t, k) = "."
           /\ Cardinality(dots) <= 1
           /\ Len(t) - Cardinality(dots) >= 1
        THEN IF dots = {}
             THEN [ok |-> TRUE, v |-> Dec(ParseNat(t), 0)]
             ELSE LET d == CHOOSE k \in dots : TRUE
                  IN  [ok |-> TRUE,
                       v  |-> Dec(ParseNat(Slice(t, 1, d - 1) \o Slice(t, d + 1, Len(t))), Len(t) - d)]
        ELSE [ok |-> FALSE]

\* variant: the periods of the thousands are kept
_conv_num_SemMilhar(val) ==
    CHOOSE r \in {IF f.ok THEN f.v ELSE Dec(0, 0) :
                    f \in {float(t) : t \in {replace(val, ",", ".")}}} : TRUE

\* _conv_num / conv_num: drop the periods, comma to period, float(), 0.0 on ValueError
\* (t is the text after the replacements, f the outcome of float; each is bound
\* through a set of one element so that it is computed once)
_conv_num(val) ==
    CHOOSE r \in {IF f.ok THEN f.v ELSE Dec(0, 0) :
                    f \in {float(t) : t \in {replace(replace(val, ".", ""), ",", ".")}}} : TRUE

\* pd.to_numeric(col, errors='coerce').fillna(0).astype('int64') on one cell that
\* holds a digit string or ''
to_int64(val) == IF AllDigits(val) THEN ParseNat(val) ELSE 0

\* a cell of a column converted with .astype('int64')
Int64(n) == [dtype |-> "int64", valor |-> n]

\* a cell of a column left as the scan stored it, a Python str
Objeto(texto) == [dtype |-> "object", valor |-> texto]

\* a row of the ProductLines DataFrame of RedeBiz: numeric columns converted, both
\* identifier columns to int64, 'Sequência' dropped
RedeBizProdutoDf(p) ==
    [NumeroDoPedido |-> p.NumeroDoPedido, CodigoFornecedor |-> Int64(to_int64(p.CodigoFornecedor)),
     ValorUnit |-> _conv_num(p.ValorUnit), Quantidade |-> _conv_num(p.Quantidade),
     Embalagem |-> p.Embalagem, Descricao |-> p.Descricao, EAN |-> Int64(to_int64(p.EAN))]

\* a row of the ProductLines DataFrame of Mondelez: only 'Código Fornecedor' is
\* converted to int64, 'EAN' stays the text the scan stored
MondelezProdutoDf(p) ==
    [NumeroDoPedido |-> p.NumeroDoPedido, CodigoFornecedor |-> Int64(to_int64(p.CodigoFornecedor)),
     ValorUnit |-> _conv_num(p.ValorUnit), Quantidade |-> _conv_num(p.Quantidade),
     Embalagem |-> p.Embalagem, Descricao |-> p.Descricao, EAN |-> Objeto(p.EAN)]

\* variant: the last Order is emitted only when its number was not emitted before
RedeBizFim_SemRepetir(c) ==
    [c EXCEPT !.produtos_list = IF TemCodigo(c.current_produto)
                                THEN Append(@, c.current_produto) ELSE @,
              !.pedidos = IF /\ c.current_pedido # None
                             /\ \A k \in 1..Len(c.pedidos) :
                                   c.pedidos[k].NumeroDoPedido # c.current_pedido.NumeroDoPedido
                          THEN Append(@, c.current_pedido) ELSE @]

\* after the loop of _process_redebiz_text: seal what is open
RedeBizFim(c) ==
    [c EXCEPT !.produtos_list = IF TemCodigo(c.current_produto)
                                THEN Append(@, c.current_produto) ELSE @,
              !.pedidos = IF c.current_pedido # None THEN Append(@, c.current_pedido) ELSE @]

\* variant: the open product is appended only when it has a supplier code
MondelezFim_SoComCodigo(c) ==
    [c EXCEPT !.produtos_list = IF TemCodigo(c.current_produto)
                                THEN Append(@, c.current_produto) ELSE @,
              !.pedidos = IF c.current_pedido # None THEN Append(@, c.current_pedido) ELSE @]

\* after the loop of _process_text: seal what is open
MondelezFim(c) ==
    [c EXCEPT !.produtos_list = SalvaProduto(c),
              !.pedidos = IF c.current_pedido # None THEN Append(@, c.current_pedido) ELSE @]

\* dfs: the Orders table when there are orders, then the ProductLines table when
\* there are product lines
RedeBizDfs(c) ==
    (IF c.pedidos # <<>> THEN <<c.pedidos>> ELSE <<>>)
    \o (IF c.produtos_list # <<>>
        THEN <<[k \in 1..Len(c.produtos_list) |-> RedeBizProdutoDf(c.produtos_list[k])]>>
        ELSE <<>>)

\* variant: the ProductLines table is returned also when it is empty
MondelezDfs_SempreProdutos(c) ==
    (IF c.pedidos # <<>> THEN <<c.pedidos>> ELSE <<>>)
    \o <<[k \in 1..Len(c.produtos_list) |-> MondelezProdutoDf(c.produtos_list[k])]>>

MondelezDfs(c) ==
    (IF c.pedidos # <<>> THEN <<c.pedidos>> ELSE <<>>)
    \o (IF c.produtos_list # <<>>
        THEN <<[k \in 1..Len(c.produtos_list) |-> MondelezProdutoDf(c.produtos_list[k])]>>
        ELSE <<>>)

(***************************************************************************)
(* The scan as a state machine: one step per line of the loop, then the     *)
(* code after the loop.                                                     *)
(***************************************************************************)
VARIABLES
    extractor,            \* "RedeBiz": _process_redebiz_text, "Mondelez": _process_text
    linhas,               \* the argument: the sequence of text lines
    i,                    \* number of lines the loop has processed
    pedidos,              \* Orders output
    produtos_list,        \* ProductLines output
    current_pedido,       \* open Order or None
    current_produto,      \* open ProductLine or None
    in_produtos_section,  \* inside-product-section flag
    dfs,                  \* the returned list of tables
    pc,                   \* "loop" while scanning, "done" after the return
    entrada,              \* the argument of a call of one of the line functions
    saida                 \* the values such a call returned, in order

vars == <<extractor, linhas, i, pedidos, produtos_list, current_pedido, current_produto,
          in_produtos_section, dfs, pc, entrada, saida>>

\* end-to-end scenario A of the specification
ScenarioA ==
    <<"PEDIDO DE COMPRAS 4500012345",
      "CNPJ 12.345.678/0001-90",
      "Cod Forn Seq Produtos",
      "100001  5,00  10,00  2,00  UN  1  ARROZ BRANCO 5KG",
      "TOTAIS 10,00">>

\* the lines the inputs are drawn from
Corpus ==
    {"PEDIDO DE COMPRAS 4500012345",
     "PEDIDO DE COMPRAS 777",
     "PEDIDO DE COMPRAS 4500012345 Pedido 777",
     "CNPJ 12.345.678/0001-90",
     "CNPJ -27 18.510.982/0001",
     "R. Social MERCADO A LTDA",
     "R. Social MERCADO B LTDA",
     "Cod Forn Seq Produtos",
     "100001  5,00  10,00  2,00  UN  1  ARROZ BRANCO 5KG",
     "TOTAIS 10,00",
     "7891000100103 140334 EXTRATO TOMATE 48 UN 6,40 6,40 307,20",
     "7891000100103 SUCO UVA 12 UN 5,00 5,00 60,00",
     "100001 0,00 5,00 10,00 2,00 UN 1 ARROZ BRANCO 5KG",
     "SABOR UVA",
     "UVA",
     "DADOS ADICIONAIS",
     "PEDIDO DE COMPRAS 2024 Nº 12"}

MaxLines == 3

SeqsUpTo(S, n) == UNION {[1..k -> S] : k \in 0..n}

\* further documents: tax-id lines that carry the brand name, in the inverted
\* and in the standard form
CenarioCnpjMarca ==
    <<"PEDIDO DE COMPRAS 4500012345",
      "CNPJ -27 18.510.982/0001 REDE BIZ",
      "CNPJ 12.345.678/0001-90 REDE BIZ">>

\* product rows that start with two short identifiers and with one
CenarioIdentificadores ==
    <<"PEDIDO DE COMPRAS 4500012345",
      "140334 100001 ARROZ BRANCO 5 UN 1,00 1,00 5,00",
      "140334 ARROZ 5 UN 1,00 1,00 5,00">>

\* a product row followed by an EAN list and by a text that holds "EAN"
CenarioEan ==
    <<"PEDIDO DE COMPRAS 4500012345",
      "7891000100103 140334 EXTRATO TOMATE 48 UN 6,40 6,40 307,20",
      "EANs: 7891000100103, 7891000100104",
      "OCEANO AZUL">>

\* the EAN list comes after the marker of another Order
CenarioEanOutroPedido ==
    <<"PEDIDO DE COMPRAS 4500012345",
      "7891000100103 140334 EXTRATO TOMATE 48 UN 6,40 6,40 307,20",
      "PEDIDO DE COMPRAS 777",
      "EANs: 7891000100103, 7891000100104">>

\* two Orders, each with a product row
CenarioDoisPedidos ==
    <<"PEDIDO DE COMPRAS 4500012345",
      "7891000100103 140334 EXTRATO TOMATE 48 UN 6,40 6,40 307,20",
      "PEDIDO DE COMPRAS 777",
      "7891000100103 SUCO UVA 12 UN 5,00 5,00 60,00">>

Cenarios ==
    {ScenarioA, CenarioCnpjMarca, CenarioIdentificadores, CenarioEan, CenarioEanOutroPedido,
     CenarioDoisPedidos}

Inputs == SeqsUpTo(Corpus, MaxLines) \cup Cenarios

\* the lines that occur in an input, and what each scan reads from them
Lines == Corpus \cup UNION {{c[k] : k \in 1..Len(c)} : c \in Cenarios}

RedeBizLex == [l \in Lines |-> RedeBizLido(l)]

MondelezLex == [l \in Lines |-> MondelezLido(l)]

ctx == Ctx(pedidos, produtos_list, current_pedido, current_produto, in_produtos_section)

SetCtx(c) ==
    /\ pedidos' = c.pedidos
    /\ produtos_list' = c.produtos_list
    /\ current_pedido' = c.current_pedido
    /\ current_produto' = c.current_produto
    /\ in_produtos_section' = c.in_produtos_section

Init ==
    /\ extractor \in {"RedeBiz", "Mondelez"}
    /\ linhas \in Inputs
    /\ i = 0
    /\ pedidos = <<>>
    /\ produtos_list = <<>>
    /\ current_pedido = None
    /\ current_produto = None
    /\ in_produtos_section = FALSE
    /\ dfs = <<>>
    /\ pc = "loop"
    /\ entrada = ""
    /\ saida = <<>>

\* variant: inside the product section the loop also runs the row matchers
RedeBizStep_ComMatchers ==
    /\ extractor = "RedeBiz" /\ pc = "loop" /\ i < Len(linhas)
    /\ \E c \in {RedeBizLinha(ctx, RedeBizLex[linhas[i + 1]])} :
          SetCtx(IF c.current_pedido # None /\ c.in_produtos_section
                 THEN MondelezProduto(c, MondelezLex[linhas[i + 1]]) ELSE c)
    /\ i' = i + 1
    /\ UNCHANGED <<extractor, linhas, dfs, pc, entrada, saida>>

\* one iteration of `for i, linha in enumerate(linhas)` of _process_redebiz_text
RedeBizStep ==
    /\ extractor = "RedeBiz" /\ pc = "loop" /\ i < Len(linhas)
    /\ \E c \in {RedeBizLinha(ctx, RedeBizLex[linhas[i + 1]])} : SetCtx(c)
    /\ i' = i + 1
    /\ UNCHANGED <<extractor, linhas, dfs, pc, entrada, saida>>

\* the code after the loop of _process_redebiz_text, up to `return dfs`
RedeBizReturn ==
    /\ extractor = "RedeBiz" /\ pc = "loop" /\ i = Len(linhas)
    /\ \E c \in {RedeBizFim(ctx)} : SetCtx(c) /\ dfs' = RedeBizDfs(c)
    /\ pc' = "done"
    /\ UNCHANGED <<extractor, linhas, i, entrada, saida>>

\* variant: the step that switches to another Order discards the open product
MondelezStep_TrocaDescarta ==
    /\ extractor = "Mondelez" /\ pc = "loop" /\ i < Len(linhas)
    /\ \E c \in {MondelezLinha(ctx, MondelezLex[linhas[i + 1]])} :
          SetCtx(IF c.pedidos # pedidos THEN [c EXCEPT !.current_produto = None] ELSE c)
    /\ i' = i + 1
    /\ UNCHANGED <<extractor, linhas, dfs, pc, entrada, saida>>

\* one iteration of `for i, linha in enumerate(linhas)` of _process_text
MondelezStep ==
    /\ extractor = "Mondelez" /\ pc = "loop" /\ i < Len(linhas)
    /\ \E c \in {MondelezLinha(ctx, MondelezLex[linhas[i + 1]])} : SetCtx(c)
    /\ i' = i + 1
    /\ UNCHANGED <<extractor, linhas, dfs, pc, entrada, saida>>

\* variant: the column conversions run without the `if produtos_list:` test
\* and raise on an empty table, so the scan returns only when it has products
MondelezReturn_ExigeProdutos ==
    /\ extractor = "Mondelez" /\ pc = "loop" /\ i = Len(linhas)
    /\ \E c \in {MondelezFim(ctx)} :
           c.produtos_list # <<>> /\ SetCtx(c) /\ dfs' = MondelezDfs(c)
    /\ pc' = "done"
    /\ UNCHANGED <<extractor, linhas, i, entrada, saida>>

\* the code after the loop of _process_text, up to `return dfs`
MondelezReturn ==
    /\ extractor = "Mondelez" /\ pc = "loop" /\ i = Len(linhas)
    /\ \E c \in {MondelezFim(ctx)} : SetCtx(c) /\ dfs' = MondelezDfs(c)
    /\ pc' = "done"
    /\ UNCHANGED <<extractor, linhas, i, entrada, saida>>

Next == RedeBizStep \/ RedeBizReturn \/ MondelezStep \/ MondelezReturn

Spec == Init /\ [][Next]_vars

(***************************************************************************)
(* Vocabulary of the properties.                                            *)
(***************************************************************************)
\* the order-start markers of a line, in the order the scan meets them: the
\* number after 'PEDIDO DE COMPRAS' (RedeBiz), the candidates that pass the
\* validity filter (Mondelez)
Marcadores(linha) ==
    IF extractor = "RedeBiz"
    THEN IF RedeBizLex[linha].marcador THEN <<RedeBizLex[linha].numero_pedido>> ELSE <<>>
    ELSE SelectSeq(MondelezLex[linha].matches_pedido, CandValido)

\* positions of the lines that carry a marker
LinhasMarcadas == {k \in 1..Len(linhas) : Marcadores(linhas[k]) # <<>>}

\* numbers carried by the markers of the whole input
NumerosMarcados ==
    UNION {{Marcadores(linhas[k])[j] : j \in 1..Len(Marcadores(linhas[k]))} : k \in 1..Len(linhas)}

\* no marker on the first n lines
SemMarcadorAte(n) == \A k \in 1..n : Marcadores(linhas[k]) = <<>>

\* the step about to run processes a line (not the code after the loop)
LendoLinha == pc = "loop" /\ i < Len(linhas)

\* a produces b by appending zero or more elements
IsPrefix(a, b) == Len(a) <= Len(b) /\ SubSeq(b, 1, Len(a)) = a

\* the line is a product row for the Mondelez row matchers
LinhaDeProduto(linha) ==
    MondelezLex[linha].match_smart # <<>> \/ MondelezLex[linha].match_format_b # <<>>

(***************************************************************************)
(* C1.  Switching to another Order.                                         *)
(***************************************************************************)
\* the first valid candidate of the line about to be read differs from the
\* number of the open Order
AceitoDifere ==
    /\ LendoLinha
    /\ current_pedido # None
    /\ Marcadores(linhas[i + 1]) # <<>>
    /\ Marcadores(linhas[i + 1])[1] # current_pedido.NumeroDoPedido

\* C1: when the accepted candidate of a line differs from the number of the
\* open Order, that one step appends the open Order to the Orders output,
\* appends the still-open ProductLine to the ProductLines output and leaves no
\* ProductLine open, opens the Order of the candidate number, and clears the
\* inside-product-section flag.
C1_TrocaSelaPedidoEProduto ==
    [][AceitoDifere =>
         /\ pedidos' = Append(pedidos, current_pedido)
         /\ produtos_list' = IF current_produto # None
                             THEN Append(produtos_list, current_produto) ELSE produtos_list
         /\ current_produto' = None
         /\ current_pedido' # None
         /\ current_pedido'.NumeroDoPedido = Marcadores(linhas[i + 1])[1]
         /\ in_produtos_section' = FALSE]_vars

(***************************************************************************)
(* C2.  A repeated marker of the open Order.                                *)
(***************************************************************************)
\* at least two marker lines, and every marker of the input carries one number
MesmoNumeroRepetido ==
    Cardinality(LinhasMarcadas) >= 2 /\ Cardinality(NumerosMarcados) = 1

\* C2: when the input has two (or more) order-start markers that all carry the
\* same number, a marker met while that Order is open neither seals nor opens
\* an Order, and the scan returns exactly one Order, with that number.
C2_MesmoNumeroUmPedido ==
    /\ [](MesmoNumeroRepetido /\ pc = "done" =>
            /\ Len(pedidos) = 1
            /\ pedidos[1].NumeroDoPedido \in NumerosMarcados
            /\ dfs[1] = pedidos)
    /\ [][MesmoNumeroRepetido /\ LendoLinha /\ current_pedido # None
          /\ (i + 1) \in LinhasMarcadas =>
            /\ pedidos' = pedidos
            /\ pedidos = <<>>
            /\ current_pedido' # None
            /\ current_pedido'.NumeroDoPedido = current_pedido.NumeroDoPedido]_vars

\* the scan of an input with a repeated marker and a line between the two
\* markers has returned
C2_Witness ==
    /\ MesmoNumeroRepetido
    /\ pc = "done"
    /\ Len(pedidos) = 1
    /\ \E k \in 1..Len(linhas) : k \notin LinhasMarcadas /\ k > 1 /\ k < Len(linhas)

(***************************************************************************)
(* C3.  Two markers with different numbers.                                 *)
(***************************************************************************)
\* exactly two marker lines, one marker each, with different numbers
DoisMarcadores ==
    /\ Cardinality(LinhasMarcadas) = 2
    /\ \A k \in LinhasMarcadas : Len(Marcadores(linhas[k])) = 1
    /\ Cardinality(NumerosMarcados) = 2

M1 == CHOOSE k \in LinhasMarcadas : \A j \in LinhasMarcadas : k <= j
M2 == CHOOSE k \in LinhasMarcadas : \A j \in LinhasMarcadas : k >= j
N1 == Marcadores(linhas[M1])[1]
N2 == Marcadores(linhas[M2])[1]

\* the ProductLines, sealed or open, that belong to the Order numbered n
ProdutosDe(n) ==
    Cardinality({k \in 1..Len(produtos_list) : produtos_list[k].NumeroDoPedido = n})
    + (IF current_produto # None /\ current_produto.NumeroDoPedido = n THEN 1 ELSE 0)

\* the Order that the line of marker N2 opens takes its values from that line alone
PedidoNovo ==
    IF extractor = "RedeBiz" THEN _novo_pedido_dict(N2)
    ELSE MondelezCabecalho(_novo_pedido_dict(N2), MondelezLex[linhas[M2]])

\* C3: when the input has exactly two order-start markers, with different
\* numbers N1 then N2, the scan returns exactly two Orders, N1 then N2; while
\* the lines between the two marker lines are read the open Order is N1, no
\* Order is sealed and every ProductLine belongs to N1; the line of the second
\* marker seals N1 as it stands and opens N2 with nothing taken from the
\* earlier lines; after it neither the sealed N1 nor the number of ProductLines
\* of N1 changes.
C3_DoisNumerosDoisPedidos ==
    /\ [](DoisMarcadores =>
            /\ (pc = "done" =>
                  /\ Len(pedidos) = 2
                  /\ pedidos[1].NumeroDoPedido = N1
                  /\ pedidos[2].NumeroDoPedido = N2
                  /\ dfs[1] = pedidos)
            /\ (M1 <= i /\ i < M2 =>
                  /\ pedidos = <<>>
                  /\ current_pedido # None
                  /\ current_pedido.NumeroDoPedido = N1
                  /\ ProdutosDe(N1) = Len(produtos_list) + (IF current_produto # None THEN 1 ELSE 0)))
    /\ [][DoisMarcadores /\ LendoLinha =>
            /\ (i + 1 = M2 =>
                  /\ pedidos' = <<current_pedido>>
                  /\ current_pedido' = PedidoNovo
                  /\ ProdutosDe(N1)' = ProdutosDe(N1)
                  /\ ProdutosDe(N2)' = 0)
            /\ (i + 1 > M2 =>
                  /\ pedidos' = pedidos
                  /\ current_pedido'.NumeroDoPedido = N2
                  /\ ProdutosDe(N1)' = ProdutosDe(N1))]_vars

\* an input with two different markers and a product row between them has been
\* scanned: two Orders, and the ProductLine of the row belongs to the first
C3_Witness ==
    /\ DoisMarcadores
    /\ pc = "done"
    /\ Len(pedidos) = 2
    /\ M1 + 1 < M2
    /\ LinhaDeProduto(linhas[M1 + 1])
    /\ Len(produtos_list) = 1
    /\ produtos_list[1].NumeroDoPedido = N1

(***************************************************************************)
(* C4.  Only the first valid candidate of a line is acted on.               *)
(***************************************************************************)
\* the first valid candidate of the line about to be read is the number of the
\* open Order
AceitoIgual ==
    /\ LendoLinha
    /\ current_pedido # None
    /\ Marcadores(linhas[i + 1]) # <<>>
    /\ Marcadores(linhas[i + 1])[1] = current_pedido.NumeroDoPedido

\* C4: when the first valid candidate of a line equals the number of the open
\* Order, the line is a continuation: it seals no Order and opens no Order,
\* whatever other candidates follow on the line.
C4_PrimeiroCandidatoIgualContinua ==
    [][AceitoIgual =>
         /\ pedidos' = pedidos
         /\ current_pedido' # None
         /\ current_pedido'.NumeroDoPedido = current_pedido.NumeroDoPedido]_vars

(***************************************************************************)
(* C5.  Sealed Orders and ProductLines.                                     *)
(***************************************************************************)
\* C5: what has been appended to the Orders output or to the ProductLines
\* output is never changed or removed by a later step: each output after a
\* step is the output before it with zero or more elements appended.
C5_SaidasCrescemPorPrefixo ==
    [][IsPrefix(pedidos, pedidos') /\ IsPrefix(produtos_list, produtos_list')]_vars

\* an Order and a ProductLine are sealed, and a later ProductLine was sealed
\* after the first one
C5_Witness ==
    /\ Len(pedidos) >= 1
    /\ Len(produtos_list) >= 2
    /\ produtos_list[1] # produtos_list[2]

(***************************************************************************)
(* C6.  End of the line stream.                                             *)
(***************************************************************************)
\* the step about to run is the code after the loop
FimDoFluxo == pc = "loop" /\ i = Len(linhas)

PedidoAbertoSelado ==
    pedidos' = IF current_pedido # None THEN Append(pedidos, current_pedido) ELSE pedidos

\* C6 (as stated): at the end of the line stream the still-open ProductLine is
\* appended to the ProductLines output if and only if its supplier code is
\* non-empty, and the still-open Order is always appended to the Orders output.
C6_FimSelaSoComCodigo ==
    [][FimDoFluxo =>
         /\ produtos_list' = IF TemCodigo(current_produto)
                             THEN Append(produtos_list, current_produto) ELSE produtos_list
         /\ PedidoAbertoSelado]_vars

\* C6 (amended): at the end of the line stream the still-open Order is always
\* appended to the Orders output; _process_text (Mondelez) appends the
\* still-open ProductLine whatever its supplier code, _process_redebiz_text
\* (RedeBiz) appends it only when its supplier code is non-empty.
C6_FimSelaPorPerfil ==
    [][FimDoFluxo =>
         /\ produtos_list' =
              IF extractor = "Mondelez"
              THEN IF current_produto # None
                   THEN Append(produtos_list, current_produto) ELSE produtos_list
              ELSE IF TemCodigo(current_produto)
                   THEN Append(produtos_list, current_produto) ELSE produtos_list
         /\ PedidoAbertoSelado]_vars

\* a Mondelez scan has returned after appending, at the end of the stream, an
\* open ProductLine whose supplier code is empty
C6_Witness ==
    /\ pc = "done"
    /\ extractor = "Mondelez"
    /\ current_produto # None
    /\ current_produto.CodigoFornecedor = ""
    /\ produtos_list # <<>>
    /\ produtos_list[Len(produtos_list)] = current_produto
    /\ pedidos # <<>>
    /\ pedidos[Len(pedidos)] = current_pedido

(***************************************************************************)
(* C7.  Header attributes already filled.                                   *)
(***************************************************************************)
Atributos ==
    {"Fornecedor", "CNPJFornecedor", "Cliente", "CNPJCliente",
     "DataLimiteEntrega", "CondicaoFrete", "DataEmissao", "ValorTotal"}

\* the step reads a line and the same Order is open before and after it
MesmoPedidoAberto ==
    /\ LendoLinha
    /\ current_pedido # None
    /\ pedidos' = pedidos

\* what the header rule of attribute a extracts from the line, << >> when the
\* rule does not fire
Extraido(linha, a) ==
    IF extractor = "RedeBiz" THEN RedeBizLex[linha][a] ELSE MondelezLex[linha][a]

\* C7 (as stated): within one open Order, a header attribute that holds a
\* non-empty value is not changed by a later line (first match wins).
C7_PrimeiroValorFica ==
    [][MesmoPedidoAberto =>
         \A a \in Atributos :
            current_pedido[a] # "" => current_pedido'[a] = current_pedido[a]]_vars

\* C7 (amended): within one open Order, first match wins only for the supplier
\* name and the client name in _process_text (Mondelez): once non-empty they
\* are not changed by a later line.  Both tax ids, the delivery deadline, the
\* freight condition, the issue date and the total value in Mondelez, and
\* every header attribute in _process_redebiz_text (RedeBiz, on a line that is
\* not a marker line), take the value of each later line whose rule fires.
C7_SoNomesFicam ==
    [][LendoLinha =>
         /\ (MesmoPedidoAberto /\ extractor = "Mondelez" =>
               \A a \in {"Fornecedor", "Cliente"} :
                  current_pedido[a] # "" => current_pedido'[a] = current_pedido[a])
         /\ (current_pedido' # None
             /\ (extractor = "RedeBiz" => current_pedido # None /\ Marcadores(linhas[i + 1]) = <<>>) =>
               \A a \in IF extractor = "RedeBiz" THEN Atributos
                        ELSE Atributos \ {"Fornecedor", "Cliente"} :
                  Extraido(linhas[i + 1], a) # <<>> =>
                     current_pedido'[a] = Extraido(linhas[i + 1], a)[1])]_vars

\* a Mondelez scan has just read a second name line with another name, and
\* the client name of the open Order is still the first one
C7_Witness ==
    /\ extractor = "Mondelez"
    /\ pc = "loop"
    /\ i >= 2
    /\ current_pedido # None
    /\ linhas[i - 1] = "R. Social MERCADO A LTDA"
    /\ linhas[i] = "R. Social MERCADO B LTDA"
    /\ current_pedido.Cliente = "MERCADO A LTDA"

(***************************************************************************)
(* C8, C9.  The scenario of one order with one product row.                 *)
(***************************************************************************)
CenarioLido == linhas = ScenarioA /\ pc = "done"

\* C8 (as stated): the scenario returns exactly one Order, number 4500012345,
\* whose supplier tax id is 12.345.678/0001-90.
C8_CnpjNoFornecedor ==
    CenarioLido =>
        /\ Len(pedidos) = 1
        /\ pedidos[1].NumeroDoPedido = "4500012345"
        /\ pedidos[1].CNPJFornecedor = "12.345.678/0001-90"

\* C8 (amended): the scenario returns exactly one Order, number 4500012345,
\* whose client tax id is 12.345.678/0001-90 and whose supplier tax id is
\* empty (the tax id line does not name REDE BIZ).
C8_CnpjNoCliente ==
    CenarioLido =>
        /\ Len(pedidos) = 1
        /\ pedidos[1].NumeroDoPedido = "4500012345"
        /\ pedidos[1].CNPJCliente = "12.345.678/0001-90"
        /\ pedidos[1].CNPJFornecedor = ""
        /\ dfs[1] = pedidos

\* the Mondelez scan of the scenario has returned its Order
C8_Witness ==
    /\ CenarioLido
    /\ extractor = "Mondelez"
    /\ Len(dfs) >= 1
    /\ Len(dfs[1]) = 1
    /\ dfs[1][1].CNPJCliente # ""

\* C9: the scenario returns exactly one ProductLine, owned by Order
\* 4500012345, with supplier code 100001, description ARROZ BRANCO 5KG,
\* quantity 2.0 and unit price 10.0.
C9_UmProdutoNoCenario ==
    CenarioLido =>
        /\ Len(produtos_list) = 1
        /\ produtos_list[1].NumeroDoPedido = "4500012345"
        /\ produtos_list[1].CodigoFornecedor = "100001"
        /\ produtos_list[1].Descricao = "ARROZ BRANCO 5KG"
        /\ Len(dfs) = 2
        /\ dfs[2][1].Quantidade = Dec(2, 0)
        /\ dfs[2][1].ValorUnit = Dec(10, 0)

(***************************************************************************)
(* C10.  Lines before the first marker.                                     *)
(***************************************************************************)
\* C10: as long as no order-start marker has been read, no Order is open and
\* nothing of the parsing state changes: no Order and no ProductLine is
\* emitted, no ProductLine is open, the section flag stays false; an input
\* without any marker returns no table at all.
C10_SemMarcadorNadaMuda ==
    SemMarcadorAte(i) =>
        /\ current_pedido = None
        /\ current_produto = None
        /\ in_produtos_section = FALSE
        /\ pedidos = <<>>
        /\ produtos_list = <<>>
        /\ dfs = <<>>

\* a marker-free input holding a table header line and a tax id line has been
\* scanned to the end
C10_Witness ==
    /\ pc = "done"
    /\ SemMarcadorAte(Len(linhas))
    /\ \E k \in 1..Len(linhas) : RedeBizLex[linhas[k]].inicio_secao
    /\ \E k \in 1..Len(linhas) : RedeBizLex[linhas[k]].CNPJCliente # <<>>
    /\ dfs = <<>>

(***************************************************************************)
(* C11.  Leaving the product section.                                       *)
(***************************************************************************)
\* the line carries a section-end marker of the running scan: TOTAIS with a
\* decimal number, DADOS ADICIONAIS or ADVERT (RedeBiz); TOTAIS, DADOS
\* ADICIONAIS or Total: (Mondelez)
FimDeSecaoNaLinha(linha) ==
    IF extractor = "RedeBiz"
    THEN RedeBizLex[linha].totais \/ RedeBizLex[linha].dados_adicionais
    ELSE MondelezLex[linha].fim_secao

\* the line is a table-header line of the running scan
InicioDeSecaoNaLinha(linha) ==
    IF extractor = "RedeBiz" THEN RedeBizLex[linha].inicio_secao
    ELSE MondelezLex[linha].inicio_secao

\* C11: while inside the product section, a line that carries a section-end
\* marker (and is neither an order-start marker line nor a table-header line)
\* moves the section state to outside, and a ProductLine open at that moment
\* is appended to the ProductLines output and no ProductLine is open afterwards.
C11_FimDeSecaoSelaProduto ==
    [][/\ LendoLinha
       /\ in_produtos_section
       /\ FimDeSecaoNaLinha(linhas[i + 1])
       /\ ~InicioDeSecaoNaLinha(linhas[i + 1])
       /\ Marcadores(linhas[i + 1]) = <<>>
       => /\ in_produtos_section' = FALSE
          /\ current_produto' = None
          /\ produtos_list' = IF current_produto # None
                              THEN Append(produtos_list, current_produto)
                              ELSE produtos_list]_vars

\* a section-end line has just been read after a product row: the section is
\* left and the ProductLine of the row is sealed
C11_Witness ==
    /\ pc = "loop"
    /\ i >= 2
    /\ LinhaDeProduto(linhas[i - 1])
    /\ FimDeSecaoNaLinha(linhas[i])
    /\ in_produtos_section = FALSE
    /\ current_produto = None
    /\ Len(produtos_list) = 1

(***************************************************************************)
(* C12.  A row met while a ProductLine is open.                             *)
(***************************************************************************)
\* the groups of the row matcher that fires on the line: regex_smart first,
\* format B otherwise; group 4 is the quantity and group 5 the unit in both
GruposDaLinha(linha) ==
    IF MondelezLex[linha].match_smart # <<>> THEN MondelezLex[linha].match_smart
    ELSE MondelezLex[linha].match_format_b

\* the description the row gives to its ProductLine
DescricaoDaLinha(linha) ==
    IF MondelezLex[linha].match_smart # <<>> THEN strip(GruposDaLinha(linha)[3])
    ELSE strip(GruposDaLinha(linha)[7])

\* a product row without any other role: no order-start candidate, no
\* table-header, section-end or repeated-header text
LinhaSoDeProduto(linha) ==
    /\ LinhaDeProduto(linha)
    /\ MondelezLex[linha].matches_pedido = <<>>
    /\ ~MondelezLex[linha].inicio_secao
    /\ ~MondelezLex[linha].fim_secao
    /\ ~MondelezLex[linha].cabecalho_repetido

\* positions of the rows that open a ProductLine: the product rows read after
\* an Order has been opened
LinhasQueAbrem ==
    {j \in 1..Len(linhas) :
        LinhaDeProduto(linhas[j]) /\ \E k \in 1..(j - 1) : Marcadores(linhas[k]) # <<>>}

\* the k-th smallest element of a set of numbers
Enesimo(S, k) == CHOOSE x \in S : Cardinality({y \in S : y < x}) = k - 1

\* s begins with the text p
ComecaCom(s, p) == Len(p) <= Len(s) /\ SubSeq(s, 1, Len(p)) = p

\* C12: in MondelezExtractor._process_text, when a row matcher fires on a
\* line while a ProductLine is open, that ProductLine is appended to the
\* ProductLines output and the ProductLine of the row becomes the open one;
\* hence the returned ProductLines are, in order, those of the product rows
\* of the line stream.
C12_ProdutosNaOrdemDasLinhas ==
    /\ [][/\ extractor = "Mondelez"
          /\ LendoLinha
          /\ current_pedido # None
          /\ LinhaSoDeProduto(linhas[i + 1])
          => /\ produtos_list' = IF current_produto # None
                                 THEN Append(produtos_list, current_produto)
                                 ELSE produtos_list
             /\ current_produto' # None
             /\ current_produto'.NumeroDoPedido = current_pedido.NumeroDoPedido
             /\ current_produto'.Quantidade = GruposDaLinha(linhas[i + 1])[4]
             /\ current_produto'.Embalagem = GruposDaLinha(linhas[i + 1])[5]
             /\ current_produto'.Descricao = DescricaoDaLinha(linhas[i + 1])]_vars
    /\ [](/\ extractor = "Mondelez"
          /\ pc = "done"
          /\ \A j \in 1..Len(linhas) : LinhaDeProduto(linhas[j]) => LinhaSoDeProduto(linhas[j])
          => /\ Len(produtos_list) = Cardinality(LinhasQueAbrem)
             /\ \A k \in 1..Len(produtos_list) :
                   /\ produtos_list[k].Quantidade = GruposDaLinha(linhas[Enesimo(LinhasQueAbrem, k)])[4]
                   /\ ComecaCom(produtos_list[k].Descricao,
                                DescricaoDaLinha(linhas[Enesimo(LinhasQueAbrem, k)])))

\* a Mondelez scan of two consecutive, different product rows has returned
\* two ProductLines
C12_Witness ==
    /\ extractor = "Mondelez"
    /\ pc = "done"
    /\ Len(linhas) = 3
    /\ LinhaDeProduto(linhas[2])
    /\ LinhaDeProduto(linhas[3])
    /\ Len(produtos_list) = 2
    /\ produtos_list[1].Quantidade # produtos_list[2].Quantidade

(***************************************************************************)
(* C13.  Continuation lines of a ProductLine.                               *)
(***************************************************************************)
\* the normalised text of the line holds none of the blocked keywords
SemBloqueio ==
    [l \in Lines |-> ~\E b \in blocked : In(b, upper(MondelezLex[l].linha_limpa))]

\* the line just read was a product row and its ProductLine is open, the
\* scan is about to read the next line
ProdutoRecemAberto ==
    /\ extractor = "Mondelez"
    /\ LendoLinha
    /\ i >= 1
    /\ LinhaSoDeProduto(linhas[i])
    /\ current_produto # None
    /\ in_produtos_section

\* the ProductLine with the text appended to its description after one space
ComDescricao(prod, texto) == [prod EXCEPT !.Descricao = @ \o " " \o texto]

\* the next line is one the continuation branch is reached with: no valid
\* order-start candidate, no table-header or repeated column header, no
\* section-end marker, no row, no EAN text, does not start with a digit
LinhaDeContinuacao(linha) ==
    /\ Marcadores(linha) = <<>>
    /\ ~MondelezLex[linha].inicio_secao
    /\ ~MondelezLex[linha].fim_secao
    /\ ~MondelezLex[linha].cabecalho_repetido
    /\ ~LinhaDeProduto(linha)
    /\ ~MondelezLex[linha].tem_ean
    /\ MondelezLex[linha].linha_limpa # ""
    /\ ~IsDigit(Ch(MondelezLex[linha].linha_limpa, 1))

\* the normalised text holds none of the ignored words
SemIgnorada ==
    [l \in Lines |-> ~\E x \in ignored : In(x, MondelezLex[l].linha_limpa)]

\* C13 (as stated): when a ProductLine has just been opened by a row and the
\* next line is a short line that does not start with a digit, matches no row
\* matcher and holds no blocked keyword (nor any other text that gives the
\* line another role), the text of that line is appended to the description
\* of the open ProductLine after exactly one space and nothing else of the
\* ProductLine changes.
C13_LinhaCurtaAnexada ==
    [][/\ ProdutoRecemAberto
       /\ LinhaDeContinuacao(linhas[i + 1])
       /\ SemBloqueio[linhas[i + 1]]
       /\ SemIgnorada[linhas[i + 1]]
       => current_produto' =
             ComDescricao(current_produto, MondelezLex[linhas[i + 1]].linha_limpa)]_vars

\* C13 (amended): when a ProductLine has just been opened by a row and the
\* next line, once normalised, is longer than 3 characters, does not start
\* with a digit, matches no row matcher, is no table-header, repeated-header
\* or section-end line, carries no valid order-start candidate, and holds
\* neither EAN, nor a blocked keyword, nor one of the ignored words, the
\* normalised text is appended to the description of the open ProductLine
\* after exactly one space and nothing else of the ProductLine changes; such
\* a line of 3 characters or fewer leaves the ProductLine as it is.
C13_LinhaLongaAnexada ==
    [][/\ ProdutoRecemAberto
       /\ LinhaDeContinuacao(linhas[i + 1])
       /\ SemBloqueio[linhas[i + 1]]
       /\ SemIgnorada[linhas[i + 1]]
       => current_produto' =
             IF Len(MondelezLex[linhas[i + 1]].linha_limpa) > 3
             THEN ComDescricao(current_produto, MondelezLex[linhas[i + 1]].linha_limpa)
             ELSE current_produto]_vars

\* a continuation line has just been read after a product row and the
\* description of the open ProductLine is that of the row, one space, the text
C13_Witness ==
    /\ extractor = "Mondelez"
    /\ pc = "loop"
    /\ i >= 2
    /\ LinhaSoDeProduto(linhas[i - 1])
    /\ linhas[i] = "SABOR UVA"
    /\ current_produto # None
    /\ current_produto.Descricao = DescricaoDaLinha(linhas[i - 1]) \o " SABOR UVA"

(***************************************************************************)
(* C14.  Termination of a scan.                                             *)
(***************************************************************************)
\* the scan keeps running: the loop goes on to the next line and the code
\* after the loop runs when the lines are used up
MaxLinhasJusta == 2

InitJusta == Init /\ Len(linhas) <= MaxLinhasJusta

SpecJusta == InitJusta /\ [][Next]_vars /\ WF_vars(Next)

\* the value a scan returns: at most the Orders table and the ProductLines table
Retornado ==
    /\ Len(dfs) <= 2
    /\ (pedidos = <<>> /\ produtos_list = <<>> => dfs = <<>>)
    /\ (pedidos # <<>> => dfs[1] = pedidos)
    /\ (produtos_list # <<>> => Len(dfs[Len(dfs)]) = Len(produtos_list))

\* C14: for every sequence of lines each scan reads every line exactly once,
\* in sequence order, whatever the line holds (it updates the parsing context
\* or is ignored), then returns: the scan always reaches its return, after
\* Len(linhas) iterations, with a list of at most two tables.
C14_VarreduraTermina ==
    /\ <>(pc = "done")
    /\ [](i <= Len(linhas))
    /\ [](pc = "done" => i = Len(linhas) /\ Retornado)
    /\ [][pc = "loop" =>
            \/ i < Len(linhas) /\ i' = i + 1 /\ pc' = "loop"
            \/ i = Len(linhas) /\ i' = i /\ pc' = "done"]_vars
    /\ [][pc = "done" => FALSE]_vars

\* a scan has returned after reading a line that no rule takes (a continuation
\* text before any marker) and a marker line that opens an Order
C14_Witness ==
    /\ pc = "done"
    /\ i = Len(linhas)
    /\ Len(linhas) = 2
    /\ linhas[1] = "UVA"
    /\ Marcadores(linhas[2]) # <<>>
    /\ Len(dfs) >= 1

(***************************************************************************)
(* C15.  One line opens at most one Order and seals at most one Order.      *)
(***************************************************************************)
\* the Order open after the step is one that the step created
AbriuPedido ==
    /\ current_pedido' # None
    /\ current_pedido = None \/ current_pedido'.NumeroDoPedido # current_pedido.NumeroDoPedido

\* C15: the step that reads one line seals no Order or exactly the Order that
\* was open before the line (at most one, and never an Order the same line
\* opened), and leaves open either the Order that was open or one new Order
\* whose number is a candidate of that line; an Order is sealed only by the
\* opening of its successor.  This holds for any number of candidates on the line.
C15_UmPedidoPorLinha ==
    [][LendoLinha =>
          /\ \/ pedidos' = pedidos
             \/ current_pedido # None /\ pedidos' = Append(pedidos, current_pedido)
          /\ pedidos' # pedidos => AbriuPedido
          /\ AbriuPedido =>
                /\ \E k \in 1..Len(Marcadores(linhas[i + 1])) :
                      current_pedido'.NumeroDoPedido = Marcadores(linhas[i + 1])[k]
                /\ current_pedido # None => pedidos' = Append(pedidos, current_pedido)
          /\ ~AbriuPedido /\ current_pedido # None =>
                current_pedido'.NumeroDoPedido = current_pedido.NumeroDoPedido]_vars

\* the second line carried two valid candidates, the first one different from
\* the open Order: it sealed that Order and opened exactly one
C15_Witness ==
    /\ pc = "loop" /\ i = 2
    /\ Len(Marcadores(linhas[2])) >= 2
    /\ Len(pedidos) = 1
    /\ Marcadores(linhas[2])[1] # pedidos[1].NumeroDoPedido
    /\ current_pedido # None
    /\ current_pedido.NumeroDoPedido = Marcadores(linhas[2])[1]

(***************************************************************************)
(* C16.  Candidates that are too short or look like a calendar year.        *)
(***************************************************************************)
\* a candidate the filter is meant to reject
Rejeitavel(numero) == Len(numero) < 3 \/ numero \in {"2023", "2024", "2025"}

\* the numbers of the sealed Orders and of the open Order
NumerosDePedido ==
    {pedidos[k].NumeroDoPedido : k \in 1..Len(pedidos)}
    \cup (IF current_pedido # None THEN {current_pedido.NumeroDoPedido} ELSE {})

\* every candidate the pattern finds on the line is one to reject
SoRejeitaveis(linha) ==
    /\ MondelezLex[linha].matches_pedido # <<>>
    /\ \A k \in 1..Len(MondelezLex[linha].matches_pedido) :
          Rejeitavel(MondelezLex[linha].matches_pedido[k])

\* the step seals nothing and keeps the open Order's number
NadaSelado ==
    /\ pedidos' = pedidos
    /\ current_pedido = None => current_pedido' = None
    /\ current_pedido # None =>
          current_pedido' # None /\ current_pedido'.NumeroDoPedido = current_pedido.NumeroDoPedido

\* C16 as stated, for both scans: no Order, sealed or open, ever carries a
\* number to reject, and a marker line whose number is one to reject seals
\* nothing and opens nothing
C16_RejeitadoNuncaEmitido ==
    /\ [](\A n \in NumerosDePedido : ~Rejeitavel(n))
    /\ [][LendoLinha /\ extractor = "Mondelez" /\ SoRejeitaveis(linhas[i + 1]) => NadaSelado]_vars
    /\ [][LendoLinha /\ extractor = "RedeBiz" /\ RedeBizLex[linhas[i + 1]].marcador
             /\ Rejeitavel(RedeBizLex[linhas[i + 1]].numero_pedido) => NadaSelado]_vars

\* C16 (amended): in the Mondelez scan no Order, sealed or open, ever carries a
\* number shorter than 3 digits or equal to 2023, 2024 or 2025, and a line
\* whose candidates are all of that kind seals nothing and keeps the open
\* Order; the RedeBiz scan has no such filter: the Order its marker line opens
\* carries the token that follows the phrase, whatever it is.
C16_MondelezRejeita ==
    /\ [](extractor = "Mondelez" => \A n \in NumerosDePedido : ~Rejeitavel(n))
    /\ [][LendoLinha /\ extractor = "Mondelez" /\ SoRejeitaveis(linhas[i + 1]) => NadaSelado]_vars
    /\ [][LendoLinha /\ extractor = "RedeBiz" /\ RedeBizLex[linhas[i + 1]].marcador
             /\ (current_pedido = None
                 \/ current_pedido.NumeroDoPedido # RedeBizLex[linhas[i + 1]].numero_pedido)
          => /\ current_pedido' # None
             /\ current_pedido'.NumeroDoPedido = RedeBizLex[linhas[i + 1]].numero_pedido]_vars

\* the Mondelez scan has read, with Order 4500012345 open, a line whose two
\* candidates are a year and a two-digit number, and returned that Order alone
C16_Witness ==
    /\ extractor = "Mondelez"
    /\ pc = "done"
    /\ Len(linhas) = 2
    /\ Marcadores(linhas[1]) # <<>>
    /\ SoRejeitaveis(linhas[2])
    /\ Len(MondelezLex[linhas[2]].matches_pedido) = 2
    /\ Len(pedidos) = 1
    /\ pedidos[1].NumeroDoPedido = Marcadores(linhas[1])[1]

(***************************************************************************)
(* C17.  Orders come out in the order they were opened, numbers may repeat.  *)
(***************************************************************************)
\* every marker line of the input carries one marker
UmMarcadorPorLinha == \A k \in LinhasMarcadas : Len(Marcadores(linhas[k])) = 1

\* the marker numbers of the input, in line order
MarcasEmOrdem ==
    [k \in 1..Cardinality(LinhasMarcadas) |-> Marcadores(linhas[Enesimo(LinhasMarcadas, k)])[1]]

\* the positions of MarcasEmOrdem whose number differs from the number just before
Aberturas == {k \in 1..Len(MarcasEmOrdem) : k = 1 \/ MarcasEmOrdem[k] # MarcasEmOrdem[k - 1]}

\* C17: when every marker line carries one marker, the Orders returned are, in
\* this order, one per marker whose number differs from the number of the
\* marker just before it: a number that comes back after another number gives
\* a new Order (markers A, B, A give the three Orders A, B, A), and an Order is
\* returned whether or not a ProductLine was opened for it.  Every Order is
\* emitted by appending the Order then open to the end of the Orders so far.
C17_PedidosNaOrdemSemDeduplicar ==
    /\ [](pc = "done" /\ UmMarcadorPorLinha =>
            /\ Len(pedidos) = Cardinality(Aberturas)
            /\ \A k \in 1..Len(pedidos) :
                  pedidos[k].NumeroDoPedido = MarcasEmOrdem[Enesimo(Aberturas, k)])
    /\ [][pedidos' # pedidos =>
              current_pedido # None /\ pedidos' = Append(pedidos, current_pedido)]_vars

\* markers A, B, A on three lines: three Orders returned, the first and the
\* third with the same number, and no ProductLine at all
C17_Witness ==
    /\ pc = "done"
    /\ UmMarcadorPorLinha
    /\ Len(MarcasEmOrdem) = 3
    /\ MarcasEmOrdem[1] # MarcasEmOrdem[2]
    /\ MarcasEmOrdem[1] = MarcasEmOrdem[3]
    /\ Len(pedidos) = 3
    /\ pedidos[1].NumeroDoPedido = pedidos[3].NumeroDoPedido
    /\ produtos_list = <<>>

(***************************************************************************)
(* C18.  The line normaliser applied to its own output.                     *)
(***************************************************************************)
MaxTokens == 3

\* pieces of lines: plain words, blanks, hard-stop phrases and trigger words in
\* both cases, a phrase that is the beginning of another
TokensNormaliza ==
    {"Ab", " ", "\t", "SUPERUS", "Superus", "DADOS DO", " COD", "Vendedor", "VALOR  TOTAL", "Pagina:"}

EntradasNormaliza == {join("", t) : t \in SeqsUpTo(TokensNormaliza, MaxTokens)}

\* no scan is running: the locals of the scans stay as constructed
SemVarredura ==
    /\ linhas = <<>> /\ i = 0
    /\ pedidos = <<>> /\ produtos_list = <<>>
    /\ current_pedido = None /\ current_produto = None
    /\ in_produtos_section = FALSE
    /\ dfs = <<>>

InitNormaliza ==
    /\ extractor = "Mondelez"
    /\ SemVarredura
    /\ pc = "normaliza"
    /\ entrada \in EntradasNormaliza
    /\ saida = <<>>

\* steps 1-3 of the loop body applied to the line
NormalizaLinha ==
    /\ pc = "normaliza"
    /\ saida' = <<Normaliza(entrada)>>
    /\ pc' = "normalizada"
    /\ UNCHANGED <<extractor, linhas, i, pedidos, produtos_list, current_pedido,
                   current_produto, in_produtos_section, dfs, entrada>>

\* the same steps applied to the line they produced
NormalizaSaida ==
    /\ pc = "normalizada"
    /\ saida' = Append(saida, Normaliza(saida[1]))
    /\ pc' = "renormalizada"
    /\ UNCHANGED <<extractor, linhas, i, pedidos, produtos_list, current_pedido,
                   current_produto, in_produtos_section, dfs, entrada>>

NextNormaliza == NormalizaLinha \/ NormalizaSaida

SpecNormaliza == InitNormaliza /\ [][NextNormaliza]_vars

\* C18: normalising a line that the normaliser produced returns that line
\* unchanged, for every input line.
C18_NormalizaIdempotente == pc = "renormalizada" => saida[2] = saida[1]

\* a line with a hard-stop phrase and a trigger word was cut by the normaliser
\* to a non-empty line, and that line was normalised again
C18_Witness ==
    /\ pc = "renormalizada"
    /\ saida[1] # entrada
    /\ saida[1] # ""
    /\ find(upper(entrada), "SUPERUS") # 0
    /\ \E p \in 1..Len(entrada) : TriggerAt(entrada, p)

(***************************************************************************)
(* C19, C20.  _clean_garbled_line on one line, then the row matchers.       *)
(***************************************************************************)
MaxCampos == 3

\* what a row may begin with: a barcode, a supplier code, a description word,
\* a quantity of one digit, in any order and number
CamposLimpa == {"7891000100103", "140334", "EXTRATO", "5"}

\* how the row may go on: not at all, as a row is printed (quantity, unit and
\* three values), with a value mixed with the letters of a header, with
\* numbers without decimals, with a single value, or with the quantity alone
CaudasLimpa ==
    <<"", " 48 UN 6,40 6,40 307,20", " 48 U6ni,t40 307,20", " 48 64 307", " 48 UN 6,40", " 48">>

EntradasLimpa ==
    {strip(join(" ", t) \o CaudasLimpa[k]) :
        t \in SeqsUpTo(CamposLimpa, MaxCampos), k \in 1..Len(CaudasLimpa)}

InitLimpa ==
    /\ extractor = "Mondelez"
    /\ SemVarredura
    /\ pc = "limpa"
    /\ entrada \in EntradasLimpa
    /\ saida = <<>>

\* linha_limpa_processada = self._clean_garbled_line(linha_limpa)
LimpaLinha ==
    /\ pc = "limpa"
    /\ saida' = <<_clean_garbled_line(entrada)>>
    /\ pc' = "limpada"
    /\ UNCHANGED <<extractor, linhas, i, pedidos, produtos_list, current_pedido,
                   current_produto, in_produtos_section, dfs, entrada>>

\* match_smart and match_format_b on linha_limpa_processada
CasaLinha ==
    /\ pc = "limpada"
    /\ saida' = Append(saida, [smart |-> match_smart(saida[1]), format_b |-> match_format_b(saida[1])])
    /\ pc' = "casada"
    /\ UNCHANGED <<extractor, linhas, i, pedidos, produtos_list, current_pedido,
                   current_produto, in_produtos_section, dfs, entrada>>

NextLimpa == LimpaLinha \/ CasaLinha

SpecLimpa == InitLimpa /\ [][NextLimpa]_vars

\* the maximal digit runs of the line as it is
Corridas == DigitRuns(entrada, 1)

TemCorrida(n) == \E k \in 1..Len(Corridas) : Len(Corridas[k]) = n

\* the first run of n digits
PrimeiraCorrida(n) == FirstWith(Corridas, {k \in 1..Len(Corridas) : Len(Corridas[k]) = n})

\* a run that can be the quantity: two digits, or one digit that is not 0
Qualifica(r) == Len(r) = 2 \/ (Len(r) = 1 /\ r # "0")

PrimeiraQuantidade == FirstWith(Corridas, {k \in 1..Len(Corridas) : Qualifica(Corridas[k])})

\* the uppercase words of three letters or more
Palavras == desc_words(entrada, 1)

\* the last two values found on the line, or the fixed values of the fallback
DoisValores ==
    IF Len(valores(entrada)) >= 2
    THEN SubSeq(valores(entrada), Len(valores(entrada)) - 1, Len(valores(entrada)))
    ELSE <<"10,00", "100,00">>

\* C19: when the line has a run of 13 digits, a run of 6 digits, an uppercase
\* word and a run of 2 digits, the columns of the returned row are: the first
\* 13-digit run, the first 6-digit run, the uppercase words, the quantity (the
\* first run of two digits or of one non-zero digit), "UN", "1", "UN", "0,00",
\* "0,00", the unit value, the unit value again as subtotal, and the total.
C19_LinhaCanonica ==
    pc # "limpa" /\ TemCorrida(13) /\ TemCorrida(6) /\ Palavras # <<>> /\ TemCorrida(2) =>
        split(saida[1]) =
            <<PrimeiraCorrida(13), PrimeiraCorrida(6)>> \o Palavras
            \o <<PrimeiraQuantidade, "UN", "1", "UN", "0,00", "0,00",
                 DoisValores[1], DoisValores[1], DoisValores[2]>>

\* a line with the supplier code before the barcode and a value mixed with the
\* letters of a header was rebuilt with the two values found on it
C19_Witness ==
    /\ pc = "limpada"
    /\ TemCorrida(13) /\ TemCorrida(6) /\ Palavras # <<>> /\ TemCorrida(2)
    /\ Corridas[1] # PrimeiraCorrida(13)
    /\ In("U6ni,t40", entrada)
    /\ Len(valores(entrada)) >= 2
    /\ saida[1] # entrada
    /\ In("6,40 6,40 307,20", saida[1])

\* one of the four fields cannot be filled from the line
FaltaCampo ==
    \/ ~TemCorrida(13)
    \/ ~TemCorrida(6)
    \/ Palavras = <<>>
    \/ PrimeiraQuantidade = ""

MaxDigitos == 4

\* texts of up to MaxDigitos characters over digits, period, comma and a
\* letter, and the three texts of the examples
EntradasConv ==
    {join("", t) : t \in SeqsUpTo({"1", "0", ".", ",", "b"}, MaxDigitos)}
    \cup {"1.234,56", "6,97", "abc"}

InitConv ==
    /\ extractor \in {"RedeBiz", "Mondelez"}
    /\ SemVarredura
    /\ pc = "converte"
    /\ entrada \in EntradasConv
    /\ saida = <<>>

\* _conv_num(val) / conv_num(val)
ConverteNumero ==
    /\ pc = "converte"
    /\ saida' = <<_conv_num(entrada)>>
    /\ pc' = "convertido"
    /\ UNCHANGED <<extractor, linhas, i, pedidos, produtos_list, current_pedido,
                   current_produto, in_produtos_section, dfs, entrada>>

\* the row of the ProductLines table for a ProductLine whose quantity and unit
\* value are the text
ConverteColunas ==
    /\ pc = "convertido"
    /\ saida' = Append(saida,
                  IF extractor = "RedeBiz"
                  THEN RedeBizProdutoDf(ProdutoFormatB("777", <<"140334", "0,00", entrada, entrada, "UN", "1", "ARROZ">>))
                  ELSE MondelezProdutoDf(ProdutoFormatB("777", <<"140334", "0,00", entrada, entrada, "UN", "1", "ARROZ">>)))
    /\ pc' = "tabela"
    /\ UNCHANGED <<extractor, linhas, i, pedidos, produtos_list, current_pedido,
                   current_produto, in_produtos_section, dfs, entrada>>

NextConv == ConverteNumero \/ ConverteColunas

SpecConv == InitConv /\ [][NextConv]_vars

\* the text without its periods and with a period for each comma
SemMilhar == subClass(subClass(entrada, 1, {"."}, TRUE, ""), 1, {","}, TRUE, ".")

\* the text parses: digits with at most one period among them, one digit at least
Analisavel(t) ==
    /\ \A k \in 1..Len(t) : IsDigit(Ch(t, k)) \/ Ch(t, k) = "."
    /\ Cardinality({k \in 1..Len(t) : Ch(t, k) = "."}) <= 1
    /\ \E k \in 1..Len(t) : IsDigit(Ch(t, k))

\* the digits after the period
CasasDecimais(t) ==
    IF \E k \in 1..Len(t) : Ch(t, k) = "." THEN Len(t) - (CHOOSE k \in 1..Len(t) : Ch(t, k) = ".") ELSE 0

\* the number written by the digits of the text
SoDigitos(t) == ParseNat(subClass(t, 1, {"."}, TRUE, ""))

\* C21: _conv_num gives the number that the text spells once its periods are
\* deleted and its comma is a period (as m * 10^-e without trailing zeros),
\* and 0 for a text that does not parse; "1.234,56" gives 1234.56, "6,97"
\* gives 6.97, "abc" gives 0; the quantity and the unit value of a row of the
\* ProductLines table are this conversion of the texts of the ProductLine.
C21_NumeroConvertido ==
    /\ pc # "converte" =>
          /\ Analisavel(SemMilhar) =>
                /\ saida[1].m * (10 ^ CasasDecimais(SemMilhar)) = SoDigitos(SemMilhar) * (10 ^ saida[1].e)
                /\ saida[1].e = 0 \/ saida[1].m % 10 # 0
          /\ ~Analisavel(SemMilhar) => saida[1] = [m |-> 0, e |-> 0]
          /\ entrada = "1.234,56" => saida[1] = [m |-> 123456, e |-> 2]
          /\ entrada = "6,97" => saida[1] = [m |-> 697, e |-> 2]
          /\ entrada = "abc" => saida[1] = [m |-> 0, e |-> 0]
    /\ pc = "tabela" => saida[2].Quantidade = saida[1] /\ saida[2].ValorUnit = saida[1]

\* the text with a thousands period and a decimal comma was converted, alone
\* and as the quantity and unit value of a row
C21_Witness ==
    /\ pc = "tabela"
    /\ entrada = "1.234,56"
    /\ saida[1] = [m |-> 123456, e |-> 2]
    /\ saida[2].Quantidade = [m |-> 123456, e |-> 2]

(***************************************************************************)
(* C22.  The identifier columns of the ProductLines table.                  *)
(***************************************************************************)
\* the ProductLines table of the result
TabelaDeProdutos == dfs[Len(dfs)]

\* the cell is an integer, and it is 0 when the text it comes from has no number
InteiroDe(cell, texto) ==
    /\ cell.dtype = "int64"
    /\ ~AllDigits(texto) => cell.valor = 0

\* C22: in the ProductLines table returned by a scan, the supplier code and
\* the EAN of every row are integers, 0 when the text collected by the scan is
\* empty or is not a number; no row carries a text in either column.
C22_IdentificadoresInteiros ==
    pc = "done" /\ produtos_list # <<>> =>
        \A k \in 1..Len(produtos_list) :
            /\ InteiroDe(TabelaDeProdutos[k].CodigoFornecedor, produtos_list[k].CodigoFornecedor)
            /\ InteiroDe(TabelaDeProdutos[k].EAN, produtos_list[k].EAN)

(***************************************************************************)
(* C23.  Attribution of a tax id by the brand name on its line.            *)
(***************************************************************************)
\* the text of the line as the header rules of the scan read it
TextoLido(linha) ==
    IF extractor = "RedeBiz" THEN strip(linha) ELSE MondelezLex[linha].linha_limpa

\* the line carries the brand name
TemMarca(linha) == In("REDE BIZ", TextoLido(linha))

\* the tax id the rules of the scan extract from the line, << >> when none
TaxIdDaLinha(linha) ==
    Extraido(linha, "CNPJFornecedor") \o Extraido(linha, "CNPJCliente")

\* the step reads a line that carries no marker while an Order is open
LinhaDoPedidoAberto ==
    /\ LendoLinha
    /\ current_pedido # None
    /\ Marcadores(linhas[i + 1]) = <<>>

\* C23: a tax id extracted from a line of an open Order is stored as the
\* supplier tax id when the line contains the brand name "REDE BIZ" and as the
\* client tax id otherwise; one line never sets both tax ids, and a tax-id
\* line without the brand name never changes the supplier tax id.
C23_CnpjPelaMarca ==
    [][LinhaDoPedidoAberto =>
         LET l == linhas[i + 1]
             id == TaxIdDaLinha(l)
         IN  /\ (id # <<>> /\ TemMarca(l) =>
                   /\ current_pedido'.CNPJFornecedor = id[1]
                   /\ current_pedido'.CNPJCliente = current_pedido.CNPJCliente)
             /\ (id # <<>> /\ ~TemMarca(l) =>
                   /\ current_pedido'.CNPJCliente = id[1]
                   /\ current_pedido'.CNPJFornecedor = current_pedido.CNPJFornecedor)
             /\ ~(/\ current_pedido'.CNPJFornecedor # current_pedido.CNPJFornecedor
                  /\ current_pedido'.CNPJCliente # current_pedido.CNPJCliente)]_vars

(***************************************************************************)
(* C24.  Leading identifiers of a row of the smart matcher.                *)
(***************************************************************************)
\* the section flag as the section tests of the step read it: an Order opened
\* by the line starts outside the section
NaSecaoAoLer == IF AbriuPedido THEN FALSE ELSE in_produtos_section

\* the step of the Mondelez scan reads a line that reaches the row matchers:
\* an Order is open and the line is no section start, section end or
\* repeated table header
ChegaAosMatchers ==
    /\ LendoLinha
    /\ extractor = "Mondelez"
    /\ current_pedido' # None
    /\ ~MondelezLex[linhas[i + 1]].inicio_secao
    /\ ~(NaSecaoAoLer /\ (\/ MondelezLex[linhas[i + 1]].fim_secao
                          \/ MondelezLex[linhas[i + 1]].cabecalho_repetido))

\* the step opens a ProductLine by the smart row matcher
AbreSmart ==
    /\ ChegaAosMatchers
    /\ MondelezLex[linhas[i + 1]].match_smart # <<>>

\* the leading identifiers of the row, one or two
Identificadores(linha) ==
    LET g == MondelezLex[linha].match_smart
    IN  IF g[2] # "" THEN <<g[1], g[2]>> ELSE <<g[1]>>

\* C24 (as stated): in every ProductLine opened by the smart row matcher each
\* leading identifier with more than 7 digits is the EAN and each one with 7
\* or fewer digits is the supplier code, so a non-empty EAN has more than 7
\* digits and a non-empty supplier code at most 7, with one or two identifiers.
C24_ClassificaPorTamanho ==
    [][AbreSmart =>
         LET ids == Identificadores(linhas[i + 1])
             p == current_produto'
         IN  /\ \A k \in 1..Len(ids) :
                   IF Len(ids[k]) > 7 THEN p.EAN = ids[k] ELSE p.CodigoFornecedor = ids[k]
             /\ p.EAN # "" => Len(p.EAN) > 7
             /\ p.CodigoFornecedor # "" => Len(p.CodigoFornecedor) <= 7]_vars

\* C24 (amended): a row with one leading identifier is classified by length
\* (more than 7 digits: it is the EAN and the supplier code is empty; 7 or
\* fewer: it is the supplier code and the EAN is empty).  A row with two
\* leading identifiers is classified by position: the first is the EAN and
\* the second the supplier code, whatever their lengths.
C24_UmPorTamanhoDoisPorPosicao ==
    [][AbreSmart =>
         LET ids == Identificadores(linhas[i + 1])
             p == current_produto'
         IN  IF Len(ids) = 2
             THEN p.EAN = ids[1] /\ p.CodigoFornecedor = ids[2]
             ELSE IF Len(ids[1]) > 7
                  THEN p.EAN = ids[1] /\ p.CodigoFornecedor = ""
                  ELSE p.EAN = "" /\ p.CodigoFornecedor = ids[1]]_vars

\* a row with two six-digit identifiers has opened a ProductLine whose EAN is
\* the first of them
C24_Witness ==
    /\ extractor = "Mondelez"
    /\ pc = "loop"
    /\ i >= 1
    /\ linhas[i] = "140334 100001 ARROZ BRANCO 5 UN 1,00 1,00 5,00"
    /\ current_produto # None
    /\ current_produto.EAN = "140334"
    /\ current_produto.CodigoFornecedor = "100001"

(***************************************************************************)
(* C25.  Continuation line that carries an EAN list.                       *)
(***************************************************************************)
\* the step of the Mondelez scan reads, with a ProductLine open, a line that
\* reaches the row matchers and on which none of them fires
SemMatcherComProduto ==
    /\ ChegaAosMatchers
    /\ ~LinhaDeProduto(linhas[i + 1])
    /\ current_produto # None

Dispara == ChegaAosMatchers /\ LinhaDeProduto(linhas[i + 1])

\* the produtos_list with the open ProductLine, if any, appended
ComOAberto ==
    IF current_produto # None THEN Append(produtos_list, current_produto) ELSE produtos_list

\* no product row of the input is also a section-start, section-end or
\* repeated-header line
SemLinhaMista ==
    \A j \in 1..Len(linhas) :
        LinhaDeProduto(linhas[j]) =>
            /\ ~MondelezLex[linhas[j]].inicio_secao
            /\ ~MondelezLex[linhas[j]].fim_secao
            /\ ~MondelezLex[linhas[j]].cabecalho_repetido

\* positions of the product rows read with an Order open
LinhasComDisparo ==
    {j \in 1..Len(linhas) :
        LinhaDeProduto(linhas[j]) /\ \E k \in 1..j : Marcadores(linhas[k]) # <<>>}

\* number of rows of the ProductLines table of the result
ProdutosNaSaida == IF Len(dfs) = 2 THEN Len(dfs[2]) ELSE 0

\* C26: in MondelezExtractor._process_text every ProductLine that is opened
\* is emitted exactly once.  A line on which a row matcher fires seals the
\* open ProductLine, if any, and opens one; a line on which none fires leaves
\* the emitted ProductLines and the open one in place, or emits the open one
\* and leaves none open; the end of the stream emits the open one.  Hence the
\* number of ProductLines in the output equals the number of lines on which
\* a row matcher fired.
C26_CadaProdutoUmaVez ==
    /\ [][extractor = "Mondelez" /\ LendoLinha =>
            IF Dispara
            THEN /\ produtos_list' = ComOAberto
                 /\ current_produto' # None
            ELSE \/ /\ produtos_list' = produtos_list
                    /\ (current_produto' = None) = (current_produto = None)
                 \/ /\ current_produto # None
                    /\ produtos_list' = ComOAberto
                    /\ current_produto' = None]_vars
    /\ [][extractor = "Mondelez" /\ pc = "loop" /\ pc' = "done" =>
            produtos_list' = ComOAberto]_vars
    /\ [](extractor = "Mondelez" /\ pc = "done" =>
            /\ ProdutosNaSaida = Len(produtos_list)
            /\ SemLinhaMista => Len(produtos_list) = Cardinality(LinhasComDisparo))

\* a scan with two product rows, the first of them still open when the
\* marker of another Order is read, has returned two ProductLines
C26_Witness ==
    /\ extractor = "Mondelez"
    /\ pc = "done"
    /\ Len(linhas) = 4
    /\ LinhasComDisparo = {2, 4}
    /\ Marcadores(linhas[3]) # <<>>
    /\ Len(pedidos) = 2
    /\ ProdutosNaSaida = 2

(***************************************************************************)
(* C27.  Referential integrity of ProductLines and Orders.                 *)
(***************************************************************************)
\* the order numbers of a sequence of Orders or of ProductLines
Numeros(s) == {s[k].NumeroDoPedido : k \in 1..Len(s)}

\* the order numbers of the Orders emitted so far and of the open one
PedidosConhecidos ==
    Numeros(pedidos) \cup (IF current_pedido # None THEN {current_pedido.NumeroDoPedido} ELSE {})

\* C27: in each scan, a ProductLine is opened only while an Order is open and
\* carries the number of that Order; the number of a ProductLine never
\* changes afterwards; the Order of every open or emitted ProductLine is open
\* or emitted, and in the returned tables the number of every ProductLine is
\* the number of a returned Order.
C27_IntegridadeReferencial ==
    /\ [][LendoLinha =>
            /\ (current_produto = None /\ current_produto' # None => current_pedido' # None)
            /\ (Dispara =>
                   /\ current_produto' # None
                   /\ current_produto'.NumeroDoPedido = current_pedido'.NumeroDoPedido)
            /\ (~Dispara /\ current_produto # None /\ current_produto' # None =>
                   current_produto'.NumeroDoPedido = current_produto.NumeroDoPedido)
            /\ IsPrefix(produtos_list, produtos_list')]_vars
    /\ [](/\ Numeros(produtos_list) \subseteq PedidosConhecidos
          /\ current_produto # None =>
                current_produto.NumeroDoPedido \in PedidosConhecidos)
    /\ [](pc = "done" =>
            /\ Numeros(produtos_list) \subseteq Numeros(pedidos)
            /\ Len(dfs) = 2 => Numeros(dfs[2]) \subseteq Numeros(dfs[1]))

\* a scan has returned two Orders and one ProductLine for each of them
C27_Witness ==
    /\ pc = "done"
    /\ Len(dfs) = 2
    /\ Len(dfs[1]) = 2
    /\ Len(dfs[2]) = 2
    /\ dfs[2][1].NumeroDoPedido = dfs[1][1].NumeroDoPedido
    /\ dfs[2][2].NumeroDoPedido = dfs[1][2].NumeroDoPedido
    /\ dfs[1][1].NumeroDoPedido # dfs[1][2].NumeroDoPedido

(***************************************************************************)
(* C28.  The RedeBiz scan has no ProductLines.                             *)
(***************************************************************************)
\* C28: in RedeBizExtractor._process_redebiz_text no step opens a
\* ProductLine: the open-product variable is empty in every reachable state,
\* no ProductLine is ever emitted, and the result holds at most the Orders
\* table.
C28_RedeBizSemProdutos ==
    extractor = "RedeBiz" =>
        /\ current_produto = None
        /\ produtos_list = <<>>
        /\ Len(dfs) <= 1
        /\ (pc = "done" => dfs = IF pedidos # <<>> THEN <<pedidos>> ELSE <<>>)

\* the RedeBiz scan of a document with an Order, a table header and a product
\* row has returned the Orders table alone
C28_Witness ==
    /\ extractor = "RedeBiz"
    /\ pc = "done"
    /\ \E j \in 1..Len(linhas) :
          /\ RedeBizLex[linhas[j]].inicio_secao
          /\ \E k \in 1..(j - 1) : RedeBizLex[linhas[k]].marcador
          /\ \E k \in (j + 1)..Len(linhas) : LinhaDeProduto(linhas[k])
    /\ Len(dfs) = 1
    /\ dfs[1] = pedidos

(***************************************************************************)
(* C29.  Shape of the result of a scan.                                    *)
(***************************************************************************)
\* the rows of the table are Orders / are ProductLines
TabelaDePedidos(t) == t = pedidos

TabelaDeProdutosDe(t) ==
    /\ Len(t) = Len(produtos_list)
    /\ \A k \in 1..Len(t) :
          /\ t[k].NumeroDoPedido = produtos_list[k].NumeroDoPedido
          /\ t[k].Descricao = produtos_list[k].Descricao

\* C29: the result of a scan is a list of 0, 1 or 2 tables.  It is empty when
\* no Order was opened; otherwise the Orders table comes first, followed by
\* the ProductLines table only when at least one ProductLine was emitted.  A
\* ProductLines table never comes without the Orders table before it, and a
\* scan with Orders and no ProductLines returns the Orders table alone.
C29_ZeroUmaOuDuasTabelas ==
    /\ pc = "loop" => dfs = <<>>
    /\ pc = "done" =>
          /\ Len(dfs) \in {0, 1, 2}
          /\ (Len(dfs) = 0) = (\A k \in 1..Len(linhas) : Marcadores(linhas[k]) = <<>>)
          /\ (Len(dfs) = 0) = (pedidos = <<>>)
          /\ Len(dfs) >= 1 => TabelaDePedidos(dfs[1]) /\ dfs[1] # <<>>
          /\ (Len(dfs) = 2) = (produtos_list # <<>>)
          /\ Len(dfs) = 2 => TabelaDeProdutosDe(dfs[2]) /\ dfs[2] # <<>>

\* a scan with an Order and no ProductLine has returned the Orders table alone
C29_Witness ==
    /\ extractor = "Mondelez"
    /\ pc = "done"
    /\ pedidos # <<>>
    /\ produtos_list = <<>>
    /\ dfs = <<pedidos>>

(***************************************************************************)
(* C30.  Monetary columns of the rebuilt row.                              *)
(***************************************************************************)
\* the four fields of the row can be filled from the line
QuatroCampos ==
    /\ TemCorrida(13)
    /\ TemCorrida(6)
    /\ Palavras # <<>>
    /\ PrimeiraQuantidade # ""

\* the decimal-comma tokens recovered from the line
TokensComVirgula ==
    IF In(",", entrada)
    THEN potential_values(split(subClass(entrada, 1, CharsOf(AsciiUpper \o AsciiLower), TRUE, "")), 1)
    ELSE <<>>

\* the monetary values available: the tokens recovered or, when there is none
\* and the line has five digit runs or more, the pair made of the last two runs
ValoresDisponiveis ==
    IF TokensComVirgula # <<>> THEN TokensComVirgula
    ELSE IF Len(Corridas) >= 5
    THEN <<Corridas[Len(Corridas) - 1] \o ",00", Corridas[Len(Corridas)] \o ",00">>
    ELSE <<>>

====
